---- MODULE Spec2Model ----
(***************************************************************************)
(* vue-csv-processor: the CSV tokenizer/parser (parseCSV) and the byte     *)
(* level encoding sniffer (detectBOM, detectEncoding) of                   *)
(* src/utils/csv-parser.js, as state machines.                             *)
(*                                                                         *)
(* A text is a sequence of one-character strings; a field value and a      *)
(* header name are texts too.  A Row (a JavaScript object keyed by header  *)
(* name) is a function whose domain is the SET of header names.            *)
(***************************************************************************)
EXTENDS Integers, Sequences, FiniteSets, TLC

VARIABLES csvText, hasHeaders, delimiter, trimFields, skipEmptyLines,
          pc, i, lines, currentLine, currentField, inQuotes,
          headers, data, errors,
          buffer, isUtf8, hasHighAscii, encoding,
          file, fileBuffer, rawContent, parsedData, parsedHeaders, mapping,
          autoMatch, autoMatchIgnoreCase, pending, ops, userEncoding,
          lastParse, stale, toggled, announced, validation, fileErrors,
          emitted

vars == <<csvText, hasHeaders, delimiter, trimFields, skipEmptyLines,
          pc, i, lines, currentLine, currentField, inQuotes,
          headers, data, errors, buffer, isUtf8, hasHighAscii, encoding,
          file, fileBuffer, rawContent, parsedData, parsedHeaders, mapping,
          autoMatch, autoMatchIgnoreCase, pending, ops, userEncoding,
          lastParse, stale, toggled, announced, validation, fileErrors,
          emitted>>

options == <<hasHeaders, delimiter, trimFields, skipEmptyLines>>
tokenizer == <<i, lines, currentLine, currentField, inQuotes>>
result == <<headers, data, errors>>
sniffer == <<buffer, isUtf8, hasHighAscii, encoding>>
\* the state of the VueCsvProcessor component, the autoMatch props, the reads
\* in flight, and what has happened so far: the number of calls made, the
\* encoding the user chose, the latest parse, the fields mapped before the
\* latest load, what was held before the header toggles made in a row, the
\* file of the latest file-loaded event
refs == <<file, fileBuffer, rawContent, parsedData, parsedHeaders, mapping>>
history == <<ops, userEncoding, lastParse, stale, toggled, announced>>
\* the VueCsvInput component: its validation prop, its fileErrors ref and the
\* event it emitted last
input == <<validation, fileErrors, emitted>>
orch == <<refs, autoMatch, autoMatchIgnoreCase, pending, history, input>>

(***************************************************************************)
(* Bounds of the model.                                                    *)
(***************************************************************************)
MaxLen == 3
MaxBytes == 2

(***************************************************************************)
(* Characters.                                                             *)
(***************************************************************************)
QUOTE == "\""
COMMA == ","
SEMI == ";"
LF == "\n"
CR == "\r"
SPACE == " "
BOMCHAR == "U+FEFF"

Alphabet == {QUOTE, COMMA, LF, CR, "a"}
Delimiters == {"", COMMA, SEMI}

Texts(n) == UNION {[1..k -> Alphabet] : k \in 0..n}

(***************************************************************************)
(* String.prototype.trim: strips white space and line terminators          *)
(* (U+FEFF is white space for trim) from both ends.                        *)
(***************************************************************************)
IsWhitespace(c) == c \in {SPACE, "\t", LF, CR, BOMCHAR}

trim(s) ==
    LET keep == {k \in 1..Len(s) : ~IsWhitespace(s[k])}
    IN  IF keep = {} THEN <<>>
        ELSE LET lo == CHOOSE k \in keep : \A j \in keep : k <= j
                 hi == CHOOSE k \in keep : \A j \in keep : k >= j
             IN  SubSeq(s, lo, hi)

\* lines 60-64, 71-75, 91-95 with the field never trimmed
closeField_Never(field, doTrim) == field

\* lines 60-64, 71-75, 91-95: the closed field, trimmed when trimFields
closeField(field, doTrim) == IF doTrim THEN trim(field) ELSE field

\* lines 78, 97 with the skipEmptyLines option ignored
keepLine_Always(line, skip) == TRUE

\* lines 78, 97 with only the first field of the line tested
keepLine_FirstField(line, skip) == ~skip \/ Len(line[1]) > 0

\* lines 78, 97: the empty-line rule
keepLine(line, skip) == ~skip \/ \E k \in 1..Len(line) : Len(line[k]) > 0

\* lines 46-47
charAt(k) == IF k < Len(csvText) THEN csvText[k + 1] ELSE ""
char == charAt(i)
nextChar == IF i < Len(csvText) - 1 THEN charAt(i + 1) ELSE ""

\* line 58: the character is the field delimiter (comma when none is given)
isDelimiter(c) == c = delimiter \/ (delimiter = "" /\ c = COMMA)
\* line 66 with every \r taken as a line break
isLineBreak_AnyCR(c, n) == c = LF \/ c = CR

\* line 66
isLineBreak(c, n) == c = LF \/ (c = CR /\ n = LF)

\* line 58: the condition of the end-of-field branch
atFieldEnd_IgnoringQuotes == isDelimiter(char)
atFieldEnd == isDelimiter(char) /\ ~inQuotes
\* line 66: the condition of the end-of-line branch
atLineEnd == isLineBreak(char, nextChar) /\ ~inQuotes

(***************************************************************************)
(* Longer inputs, beside every text of at most MaxLen characters.          *)
(***************************************************************************)
\* spec.md section 8, quoted-field containment
ExQuoted ==
    <<"n", "a", "m", "e", COMMA, "n", "o", "t", "e", LF, QUOTE, "D",
      "o", "e", COMMA, SPACE, "J", "o", "h", "n", QUOTE, COMMA, QUOTE,
      "L", "i", "n", "e", "1", LF, "L", "i", "n", "e", "2", QUOTE>>
\* spec.md section 8, doubled-quote escaping
ExEscaped ==
    <<QUOTE, "S", "h", "e", SPACE, "s", "a", "i", "d", SPACE, QUOTE,
      QUOTE, "h", "i", QUOTE, QUOTE, QUOTE>>
\* spec.md section 8, header-count mismatch
ExMismatch ==
    <<"a", COMMA, "b", COMMA, "c", LF, "1", COMMA, "2">>
\* spec.md section 8, no-headers synthesis
ExNoHeaders ==
    <<"1", COMMA, "2", COMMA, "3", LF, "4", COMMA, "5", COMMA, "6">>
\* a short, an exact and a long data line
ExRagged ==
    <<"a", COMMA, "b", LF, "1", LF, "1", COMMA, "2", LF, "1", COMMA,
      "2", COMMA, "3", LF>>
\* white space around and inside quoted fields
ExSpaces ==
    <<SPACE, "a", SPACE, COMMA, SPACE, QUOTE, "b", SPACE, COMMA, QUOTE,
      LF, QUOTE, SPACE, LF, QUOTE, COMMA, "c", SPACE>>
\* a semicolon separated text
ExSemi ==
    <<"a", SEMI, "b", LF, "1", SEMI, "2">>
\* a text that starts with U+FEFF
ExBom ==
    <<BOMCHAR, "a", COMMA, "b", LF, "1", COMMA, "2">>
\* a header line with a repeated name
ExDupHeaders ==
    <<"a", COMMA, "a", LF, "1", COMMA, "2">>
\* one quoted field with a line break and a delimiter at both ends
ExQuotedEdges ==
    <<QUOTE, LF, COMMA, "a", QUOTE, QUOTE, "b", COMMA, LF, QUOTE>>
Examples ==
    {ExQuoted, ExEscaped, ExMismatch, ExNoHeaders, ExRagged, ExSpaces,
     ExSemi, ExBom, ExDupHeaders, ExQuotedEdges}
\* short texts that start with U+FEFF, one of them with two
BomTexts ==
    {<<BOMCHAR>> \o t : t \in Texts(1)} \cup {<<BOMCHAR, BOMCHAR, "a">>}

\* no VueCsvProcessor component is involved
NoFile == "null"
NoEvent == [event |-> "none", errors |-> <<>>, file |-> NoFile]
NoBuffer == [isNull |-> TRUE, bytes |-> <<>>]
NoParse == [n |-> 0, headers |-> <<>>, data |-> <<>>, errors |-> <<>>]
EmptyMapping == [f \in {} |-> <<>>]
NoToggle ==
    [n |-> 0, loaded |-> FALSE, hasHeaders |-> TRUE, parsedHeaders |-> <<>>,
     parsedData |-> <<>>]

\* lines 79-90 of the component: the refs as setup() creates them
freshRefs ==
    /\ file = NoFile
    /\ fileBuffer = NoBuffer
    /\ rawContent = <<>>
    /\ parsedData = <<>>
    /\ parsedHeaders = <<>>
    /\ mapping = EmptyMapping
    /\ pending = {}
    /\ ops = 0
    /\ userEncoding = "none"
    /\ lastParse = NoParse
    /\ stale = {}
    /\ toggled = NoToggle
    /\ announced = NoFile
    /\ autoMatchIgnoreCase = TRUE
    /\ fileErrors = <<>>
    /\ emitted = NoEvent

(***************************************************************************)
(* parseCSV, lines 16-149.  The call starts with a text and the options;   *)
(* an absent option has its default, an absent delimiter is ''.            *)
(***************************************************************************)
Init ==
    /\ csvText \in Texts(MaxLen) \cup Examples \cup BomTexts
    /\ hasHeaders \in BOOLEAN
    /\ delimiter \in Delimiters
    /\ trimFields \in BOOLEAN
    /\ skipEmptyLines \in BOOLEAN
    /\ pc = "start"
    /\ i = 0
    /\ lines = <<>>
    /\ currentLine = <<>>
    /\ currentField = <<>>
    /\ inQuotes = FALSE
    /\ headers = <<>>
    /\ data = <<>>
    /\ errors = <<>>
    /\ buffer = <<>>
    /\ isUtf8 = TRUE
    /\ hasHighAscii = FALSE
    /\ encoding = "none"
    /\ freshRefs
    /\ validation = TRUE
    /\ autoMatch = TRUE

\* lines 33-43: drop one leading U+FEFF, start the scan
\* lines 33-37 with the first character kept
StripBOM_Keep ==
    /\ pc = "start"
    /\ pc' = "scan"
    /\ i' = 0
    /\ lines' = <<>>
    /\ currentLine' = <<>>
    /\ currentField' = <<>>
    /\ inQuotes' = FALSE
    /\ UNCHANGED <<csvText, options, result, sniffer, orch>>

StripBOM ==
    /\ pc = "start"
    /\ csvText' = IF Len(csvText) > 0 /\ csvText[1] = BOMCHAR
                  THEN Tail(csvText) ELSE csvText
    /\ pc' = "scan"
    /\ i' = 0
    /\ lines' = <<>>
    /\ currentLine' = <<>>
    /\ currentField' = <<>>
    /\ inQuotes' = FALSE
    /\ UNCHANGED <<options, result, sniffer, orch>>

inLoop == pc = "scan" /\ i < Len(csvText)

\* lines 49-53 without the i++ of line 53
EscapedQuote_NoSkip ==
    /\ inLoop
    /\ char = QUOTE
    /\ inQuotes /\ nextChar = QUOTE
    /\ currentField' = Append(currentField, QUOTE)
    /\ i' = i + 1
    /\ UNCHANGED <<csvText, options, pc, lines, currentLine, inQuotes,
                   result, sniffer, orch>>

\* lines 49-53: a doubled quote inside quotes is one literal quote
EscapedQuote ==
    /\ inLoop
    /\ char = QUOTE
    /\ inQuotes /\ nextChar = QUOTE
    /\ currentField' = Append(currentField, QUOTE)
    /\ i' = i + 2
    /\ UNCHANGED <<csvText, options, pc, lines, currentLine, inQuotes,
                   result, sniffer, orch>>

\* lines 54-57 with the index held back, as if the branch undid the i++
\* of line 45
ToggleQuote_Stay ==
    /\ inLoop
    /\ char = QUOTE
    /\ ~(inQuotes /\ nextChar = QUOTE)
    /\ inQuotes' = ~inQuotes
    /\ i' = i
    /\ UNCHANGED <<csvText, options, pc, lines, currentLine, currentField,
                   result, sniffer, orch>>

\* lines 54-57: any other quote toggles quote mode and is not stored
ToggleQuote ==
    /\ inLoop
    /\ char = QUOTE
    /\ ~(inQuotes /\ nextChar = QUOTE)
    /\ inQuotes' = ~inQuotes
    /\ i' = i + 1
    /\ UNCHANGED <<csvText, options, pc, lines, currentLine, currentField,
                   result, sniffer, orch>>

\* lines 58-65: a delimiter outside quotes closes the field
EndOfField ==
    /\ inLoop
    /\ char # QUOTE
    /\ atFieldEnd
    /\ currentLine' = Append(currentLine, closeField(currentField, trimFields))
    /\ currentField' = <<>>
    /\ i' = i + 1
    /\ UNCHANGED <<csvText, options, pc, lines, inQuotes, result, sniffer, orch>>

\* lines 66-83: a line break outside quotes closes the field and the line
EndOfLine ==
    /\ inLoop
    /\ char # QUOTE
    /\ ~atFieldEnd
    /\ atLineEnd
    /\ LET line == Append(currentLine, closeField(currentField, trimFields))
       IN  lines' = IF keepLine(line, skipEmptyLines)
                    THEN Append(lines, line) ELSE lines
    /\ currentLine' = <<>>
    /\ currentField' = <<>>
    /\ i' = IF char = CR THEN i + 2 ELSE i + 1
    /\ UNCHANGED <<csvText, options, pc, inQuotes, result, sniffer, orch>>

\* lines 84-86: every other character goes into the field
AppendChar ==
    /\ inLoop
    /\ char # QUOTE
    /\ ~atFieldEnd
    /\ ~atLineEnd
    /\ currentField' = Append(currentField, char)
    /\ i' = i + 1
    /\ UNCHANGED <<csvText, options, pc, lines, currentLine, inQuotes,
                   result, sniffer, orch>>

\* lines 89-100: the last line, when a field or a line is pending
LastLine ==
    /\ pc = "scan"
    /\ ~(i < Len(csvText))
    /\ IF Len(currentField) > 0 \/ Len(currentLine) > 0
       THEN LET line == Append(currentLine,
                               closeField(currentField, trimFields))
            IN  /\ currentLine' = line
                /\ lines' = IF keepLine(line, skipEmptyLines)
                            THEN Append(lines, line) ELSE lines
       ELSE UNCHANGED <<currentLine, lines>>
    /\ pc' = "post"
    /\ UNCHANGED <<csvText, options, i, currentField, inQuotes,
                   result, sniffer, orch>>

\* lines 102-105 with the text tested in place of the line list
EmptyInput_TextOnly ==
    /\ pc = "post"
    /\ Len(csvText) = 0
    /\ data' = <<>>
    /\ headers' = <<>>
    /\ errors' = <<"Empty CSV content">>
    /\ pc' = "done"
    /\ UNCHANGED <<csvText, options, tokenizer, sniffer, orch>>

\* lines 102-105
EmptyInput ==
    /\ pc = "post"
    /\ Len(lines) = 0
    /\ data' = <<>>
    /\ headers' = <<>>
    /\ errors' = <<"Empty CSV content">>
    /\ pc' = "done"
    /\ UNCHANGED <<csvText, options, tokenizer, sniffer, orch>>

\* decimal digits of a natural number, as a text
RECURSIVE digits(_)
digits(n) == IF n < 10 THEN <<ToString(n)>>
             ELSE Append(digits(n \div 10), ToString(n % 10))

\* line 117 with the index of the callback used as it is
columnName_ZeroBased(index) == <<"C", "o", "l", "u", "m", "n", SPACE>> \o digits(index)

\* line 117: `Column ${index + 1}`, index counted from 0
columnName(index) == <<"C", "o", "l", "u", "m", "n", SPACE>> \o digits(index + 1)

\* lines 111-118: the header line, or synthesized names
extractHeaders(ls, withHeaders) ==
    IF withHeaders THEN ls[1]
    ELSE [k \in 1..Len(ls[1]) |-> columnName(k - 1)]

\* line 114 with the shift done whether or not there is a header line
dataLines_AlwaysShift(ls, withHeaders) == Tail(ls)

\* line 114: lines.shift() when the first line is the header line
dataLines(ls, withHeaders) == IF withHeaders THEN Tail(ls) ELSE ls

\* line 126 with the index of the callback used as it is
mismatchError_ZeroBased(lineIndex, n, m) ==
    "Line " \o ToString(lineIndex) \o " has " \o ToString(n)
        \o " fields, expected " \o ToString(m)

\* line 126, lineIndex counted from 0
mismatchError(lineIndex, n, m) ==
    "Line " \o ToString(lineIndex + 1) \o " has " \o ToString(n)
        \o " fields, expected " \o ToString(m)

\* lines 125-127 over all lines: the errors pushed by the map callback
RECURSIVE lineErrors(_, _, _)
lineErrors(ls, m, k) ==
    IF k > Len(ls) THEN <<>>
    ELSE (IF Len(ls[k]) # m
          THEN <<mismatchError(k - 1, Len(ls[k]), m)>> ELSE <<>>)
         \o lineErrors(ls, m, k + 1)

\* lines 128-133: pad with '' or truncate to the header count
adjustLine(line, m) ==
    IF Len(line) = m THEN line
    ELSE IF Len(line) < m
         THEN line \o [k \in 1..(m - Len(line)) |-> <<>>]
         ELSE SubSeq(line, 1, m)

\* lines 136-143: row[header] = line[index] for every header in order; a
\* later assignment to the same key replaces the earlier one
makeRow(hdrs, line) ==
    [h \in {hdrs[k] : k \in 1..Len(hdrs)} |->
        LET last == CHOOSE k \in 1..Len(hdrs) :
                        /\ hdrs[k] = h
                        /\ \A j \in 1..Len(hdrs) : hdrs[j] = h => j <= k
        IN  IF last - 1 < Len(line) THEN line[last] ELSE <<>>]

\* lines 107-148
BuildResult ==
    /\ pc = "post"
    /\ Len(lines) # 0
    /\ LET hdrs == extractHeaders(lines, hasHeaders)
           rest == dataLines(lines, hasHeaders)
       IN  /\ headers' = hdrs
           /\ lines' = rest
           /\ errors' = lineErrors(rest, Len(hdrs), 1)
           /\ data' = [k \in 1..Len(rest) |->
                          makeRow(hdrs, adjustLine(rest[k], Len(hdrs)))]
    /\ pc' = "done"
    /\ UNCHANGED <<csvText, options, i, currentLine, currentField, inQuotes,
                   sniffer, orch>>

Next ==
    \/ StripBOM
    \/ EscapedQuote
    \/ ToggleQuote
    \/ EndOfField
    \/ EndOfLine
    \/ AppendChar
    \/ LastLine
    \/ EmptyInput
    \/ BuildResult

Spec == Init /\ [][Next]_vars

(***************************************************************************)
(* detectBOM and detectEncoding, lines 221-322.  A buffer is a sequence    *)
(* of bytes 0..255; reading a typed array past its end gives undefined,    *)
(* which equals no byte.                                                   *)
(***************************************************************************)
undefined == -1

Bytes == {\h00, \h41, \h80, \hBF, \hC3, \hE2, \hF0, \hF8, \hFE, \hFF}
ByteSeqs(n) == UNION {[1..k -> Bytes] : k \in 0..n}

\* the byte order marks of lines 224-247, and no mark at all
BomPrefixes ==
    {<<>>, <<\hEF, \hBB, \hBF>>, <<\hFF, \hFE>>, <<\hFE, \hFF>>,
     <<\hFF, \hFE, \h00, \h00>>, <<\h00, \h00, \hFE, \hFF>>}

\* uint8Array[k], k counted from 0
byteAt(b, k) == IF k < Len(b) THEN b[k + 1] ELSE undefined

\* detectBOM with the UTF-8 mark recognised by its first two bytes
detectBOM_TwoByteUtf8(b) ==
    LET u == SubSeq(b, 1, IF Len(b) < 4 THEN Len(b) ELSE 4)
    IN  IF byteAt(u, 0) = \hEF /\ byteAt(u, 1) = \hBB
        THEN "UTF-8"
        ELSE IF byteAt(u, 0) = \hFF /\ byteAt(u, 1) = \hFE
        THEN "UTF-16LE"
        ELSE IF byteAt(u, 0) = \hFE /\ byteAt(u, 1) = \hFF
        THEN "UTF-16BE"
        ELSE IF /\ byteAt(u, 0) = \h00 /\ byteAt(u, 1) = \h00
                /\ byteAt(u, 2) = \hFE /\ byteAt(u, 3) = \hFF
        THEN "UTF-32BE"
        ELSE "null"

\* lines 221-251: the checks in source order, the first that matches decides
detectBOM(b) ==
    LET u == SubSeq(b, 1, IF Len(b) < 4 THEN Len(b) ELSE 4)
    IN  IF byteAt(u, 0) = \hEF /\ byteAt(u, 1) = \hBB /\ byteAt(u, 2) = \hBF
        THEN "UTF-8"
        ELSE IF byteAt(u, 0) = \hFF /\ byteAt(u, 1) = \hFE
        THEN "UTF-16LE"
        ELSE IF byteAt(u, 0) = \hFE /\ byteAt(u, 1) = \hFF
        THEN "UTF-16BE"
        ELSE IF /\ byteAt(u, 0) = \hFF /\ byteAt(u, 1) = \hFE
                /\ byteAt(u, 2) = \h00 /\ byteAt(u, 3) = \h00
        THEN "UTF-32LE"
        ELSE IF /\ byteAt(u, 0) = \h00 /\ byteAt(u, 1) = \h00
                /\ byteAt(u, 2) = \hFE /\ byteAt(u, 3) = \hFF
        THEN "UTF-32BE"
        ELSE "null"

\* longer buffers: whole, cut short and malformed 3- and 4-byte sequences,
\* and byte order marks cut short
EncExamples ==
    {<<\hE2, \h80, \hBF>>, <<\hF0, \h80, \h80, \hBF>>, <<\h41, \hE2, \h80>>,
     <<\hF0, \h80, \h80>>, <<\hF0, \h80, \h41, \h80>>, <<\hE2, \h80, \hC3>>,
     <<\h41, \hC3, \h80, \h41, \hF8>>, <<\hEF, \hBB>>, <<\h00, \h00, \hFE>>}

InitEnc ==
    /\ buffer \in {p \o t : p \in BomPrefixes, t \in ByteSeqs(MaxBytes)}
                    \cup EncExamples
    /\ pc = "bom"
    /\ i = 0
    /\ isUtf8 = TRUE
    /\ hasHighAscii = FALSE
    /\ encoding = "none"
    /\ csvText = <<>>
    /\ hasHeaders = TRUE
    /\ delimiter = ""
    /\ trimFields = TRUE
    /\ skipEmptyLines = TRUE
    /\ lines = <<>>
    /\ currentLine = <<>>
    /\ currentField = <<>>
    /\ inQuotes = FALSE
    /\ headers = <<>>
    /\ data = <<>>
    /\ errors = <<>>
    /\ freshRefs
    /\ validation = TRUE
    /\ autoMatch = TRUE

parser == <<csvText, options, lines, currentLine, currentField, inQuotes,
            result>>

\* lines 260-264: a byte order mark decides at once
BomFound ==
    /\ pc = "bom"
    /\ detectBOM(buffer) # "null"
    /\ encoding' = detectBOM(buffer)
    /\ pc' = "done"
    /\ UNCHANGED <<parser, orch, i, buffer, isUtf8, hasHighAscii>>

\* lines 266-271: no mark, start the structural scan
NoBom ==
    /\ pc = "bom"
    /\ detectBOM(buffer) = "null"
    /\ isUtf8' = TRUE
    /\ hasHighAscii' = FALSE
    /\ i' = 0
    /\ pc' = "bytes"
    /\ UNCHANGED <<parser, orch, buffer, encoding>>

\* lines 281, 288, 297: continuation bytes a lead byte asks for, -1 for a
\* byte above 127 that is no lead byte
continuations(byte) ==
    IF byte >= \hC0 /\ byte <= \hDF THEN 1
    ELSE IF byte >= \hE0 /\ byte <= \hEF THEN 2
    ELSE IF byte >= \hF0 /\ byte <= \hF7 THEN 3
    ELSE -1

\* the test of the top bit alone, (byte & 0x80) === 0x80
isContinuation_TopBit(byte) == byte >= \h80

\* (byte & 0xC0) === 0x80
isContinuation(byte) == byte >= \h80 /\ byte <= \hBF

\* lines 283, 290-292, 299-302: the sequence of n continuation bytes after
\* position k is cut short or malformed
badSequence(b, k, n) ==
    \/ k + n >= Len(b)
    \/ \E j \in 1..n : ~isContinuation(byteAt(b, k + j))

inScan == pc = "bytes" /\ i < Len(buffer)

\* line 277 false: a byte up to 127
ScanAscii ==
    /\ inScan
    /\ ~(byteAt(buffer, i) > 127)
    /\ i' = i + 1
    /\ UNCHANGED <<parser, orch, pc, buffer, isUtf8, hasHighAscii, encoding>>

\* lines 281-306: a lead byte with all its continuation bytes
ScanSequence ==
    /\ inScan
    /\ byteAt(buffer, i) > 127
    /\ LET n == continuations(byteAt(buffer, i))
       IN  /\ n # -1
           /\ ~badSequence(buffer, i, n)
           /\ i' = i + n + 1
    /\ hasHighAscii' = TRUE
    /\ UNCHANGED <<parser, orch, pc, buffer, isUtf8, encoding>>

\* lines 283-286, 290-295, 299-304, 307-311: isUtf8 = false; break
ScanInvalid ==
    /\ inScan
    /\ byteAt(buffer, i) > 127
    /\ LET n == continuations(byteAt(buffer, i))
       IN  n = -1 \/ badSequence(buffer, i, n)
    /\ hasHighAscii' = TRUE
    /\ isUtf8' = FALSE
    /\ pc' = "result"
    /\ UNCHANGED <<parser, orch, i, buffer, encoding>>

\* line 273: the loop ends at the end of the buffer
ScanEnd ==
    /\ pc = "bytes"
    /\ ~(i < Len(buffer))
    /\ pc' = "result"
    /\ UNCHANGED <<parser, orch, i, buffer, isUtf8, hasHighAscii, encoding>>

\* lines 315-321 without the hasHighAscii test
Result_Utf8ForAscii ==
    /\ pc = "result"
    /\ encoding' = IF isUtf8 THEN "UTF-8" ELSE "windows-1252"
    /\ pc' = "done"
    /\ UNCHANGED <<parser, orch, i, buffer, isUtf8, hasHighAscii>>

\* lines 315-321
Result ==
    /\ pc = "result"
    /\ encoding' = IF isUtf8 /\ hasHighAscii THEN "UTF-8" ELSE "windows-1252"
    /\ pc' = "done"
    /\ UNCHANGED <<parser, orch, i, buffer, isUtf8, hasHighAscii>>

NextEnc ==
    \/ BomFound
    \/ NoBom
    \/ ScanAscii
    \/ ScanSequence
    \/ ScanInvalid
    \/ ScanEnd
    \/ Result

SpecEnc == InitEnc /\ [][NextEnc]_vars

(***************************************************************************)
(* The two loops run to their end.  parseCSV and detectEncoding are        *)
(* synchronous functions: the engine that called one runs it to its return *)
(* with nothing in between, so a step that can be taken is taken.  That is *)
(* weak fairness of the step relation.  A behaviour is one call of either  *)
(* function; the two sets of pc values meet only in "done", where neither  *)
(* function has a step.                                                    *)
(***************************************************************************)
InitLoops == Init \/ InitEnc

NextLoops == Next \/ NextEnc

SpecLoops == InitLoops /\ [][NextLoops]_vars /\ WF_vars(NextLoops)

(***************************************************************************)
(* detectDelimiter, lines 156-180.                                         *)
(***************************************************************************)
TAB == "\t"
PIPE == "|"

\* line 158: the lines of the sample that are looked at
SampleLines == 5

\* lines 161-166: the candidates in the order Object.entries gives them
Candidates == <<COMMA, SEMI, TAB, PIPE>>

\* line 158: csvContent.split(/\r?\n/), from position k (counted from 1) on
\* with the piece cur begun
RECURSIVE splitLinesFrom(_, _, _)
splitLinesFrom(t, k, cur) ==
    IF k > Len(t) THEN <<cur>>
    ELSE IF t[k] = LF THEN <<cur>> \o splitLinesFrom(t, k + 1, <<>>)
    ELSE IF t[k] = CR /\ k < Len(t) /\ t[k + 1] = LF
         THEN <<cur>> \o splitLinesFrom(t, k + 2, <<>>)
    ELSE splitLinesFrom(t, k + 1, Append(cur, t[k]))

\* join('\n')
RECURSIVE joinLines(_)
joinLines(ls) ==
    IF Len(ls) = 0 THEN <<>>
    ELSE IF Len(ls) = 1 THEN ls[1]
    ELSE ls[1] \o <<LF>> \o joinLines(Tail(ls))

\* line 158 without slice(0, 5)
sampleOf_AllLines(t) == joinLines(splitLinesFrom(t, 1, <<>>))

\* line 158
sampleOf(t) ==
    LET ls == splitLinesFrom(t, 1, <<>>)
    IN  joinLines(SubSeq(ls, 1, IF Len(ls) < SampleLines THEN Len(ls)
                                                        ELSE SampleLines))

\* lines 162-165: (sampleLines.match(/c/g) || []).length
countOf(c, t) == Cardinality({k \in 1..Len(t) : t[k] = c})

\* lines 172-177 with >= in place of >
RECURSIVE mostCommon_LastWins(_, _, _, _)
mostCommon_LastWins(sample, k, maxCount, detected) ==
    IF k > Len(Candidates) THEN detected
    ELSE LET count == countOf(Candidates[k], sample)
         IN  IF count >= maxCount
             THEN mostCommon_LastWins(sample, k + 1, count, Candidates[k])
             ELSE mostCommon_LastWins(sample, k + 1, maxCount, detected)

\* lines 172-177: the loop over the candidates from the k-th on
RECURSIVE mostCommon(_, _, _, _)
mostCommon(sample, k, maxCount, detected) ==
    IF k > Len(Candidates) THEN detected
    ELSE LET count == countOf(Candidates[k], sample)
         IN  IF count > maxCount
             THEN mostCommon(sample, k + 1, count, Candidates[k])
             ELSE mostCommon(sample, k + 1, maxCount, detected)

\* lines 156-180
detectDelimiter(csvContent) == mostCommon(sampleOf(csvContent), 1, 0, COMMA)

DelimAlphabet == {COMMA, SEMI, TAB, PIPE, LF, "a"}
DelimTexts(n) == UNION {[1..k -> DelimAlphabet] : k \in 0..n}

\* as many commas as semicolons
ExTie == <<"a", SEMI, "b", COMMA, "c", LF, "1", COMMA, "2", SEMI, "3">>
\* one comma in the first five lines, three pipes in the sixth
ExSixLines ==
    <<"a", COMMA, "b", LF, LF, CR, LF, LF, "c", CR, LF, PIPE, PIPE, PIPE>>
\* tabs and pipes in equal number, fewer commas
ExTabPipe == <<PIPE, "a", TAB, COMMA, PIPE, CR, TAB>>
DelimExamples == {ExTie, ExSixLines, ExTabPipe, ExSemi, ExQuoted}

\* the start of a text: nothing, or four lines, one of them ended by \r\n
LinePrefixes == {<<>>, <<"a", COMMA, "b", LF, LF, CR, LF, LF>>}
DelimInputs ==
    {p \o t : p \in LinePrefixes, t \in DelimTexts(MaxLen)} \cup DelimExamples

InitDelim ==
    /\ csvText \in DelimInputs
    /\ delimiter = ""
    /\ pc = "sample"
    /\ hasHeaders = TRUE
    /\ trimFields = TRUE
    /\ skipEmptyLines = TRUE
    /\ i = 0
    /\ lines = <<>>
    /\ currentLine = <<>>
    /\ currentField = <<>>
    /\ inQuotes = FALSE
    /\ headers = <<>>
    /\ data = <<>>
    /\ errors = <<>>
    /\ buffer = <<>>
    /\ isUtf8 = TRUE
    /\ hasHighAscii = FALSE
    /\ encoding = "none"
    /\ freshRefs
    /\ validation = TRUE
    /\ autoMatch = TRUE

\* one call of detectDelimiter on the text
DetectDelimiter ==
    /\ pc = "sample"
    /\ delimiter' = detectDelimiter(csvText)
    /\ pc' = "done"
    /\ UNCHANGED <<csvText, hasHeaders, trimFields, skipEmptyLines, tokenizer,
                   result, sniffer, orch>>

NextDelim == DetectDelimiter

SpecDelim == InitDelim /\ [][NextDelim]_vars

(***************************************************************************)
(* parseCSV and detectEncoding as functions of their arguments, for the    *)
(* callers of src/unnamed/part_003 (the VueCsvProcessor component).        *)
(***************************************************************************)
\* lines 40-43: the tokenizer before the first character
freshScan ==
    [lines |-> <<>>, currentLine |-> <<>>, currentField |-> <<>>,
     inQuotes |-> FALSE]

\* lines 45-87: the loop from position k (counted from 0) on; o holds the
\* options
RECURSIVE scanFrom(_, _, _, _)
scanFrom(t, k, st, o) ==
    IF ~(k < Len(t)) THEN st
    ELSE
    LET c == t[k + 1]
        n == IF k < Len(t) - 1 THEN t[k + 2] ELSE ""
        closed == Append(st.currentLine,
                         closeField(st.currentField, o.trimFields))
    IN  IF c = QUOTE
        THEN IF st.inQuotes /\ n = QUOTE
             THEN scanFrom(t, k + 2,
                    [st EXCEPT !.currentField = Append(@, QUOTE)], o)
             ELSE scanFrom(t, k + 1, [st EXCEPT !.inQuotes = ~@], o)
        ELSE IF (c = o.delimiter \/ (o.delimiter = "" /\ c = COMMA))
                  /\ ~st.inQuotes
        THEN scanFrom(t, k + 1,
               [st EXCEPT !.currentLine = closed, !.currentField = <<>>], o)
        ELSE IF isLineBreak(c, n) /\ ~st.inQuotes
        THEN scanFrom(t, IF c = CR THEN k + 2 ELSE k + 1,
               [st EXCEPT !.lines = IF keepLine(closed, o.skipEmptyLines)
                                    THEN Append(@, closed) ELSE @,
                          !.currentLine = <<>>,
                          !.currentField = <<>>], o)
        ELSE scanFrom(t, k + 1,
               [st EXCEPT !.currentField = Append(@, c)], o)

\* lines 89-100: the lines once the last line is handled
committedLines(st, o) ==
    IF Len(st.currentField) > 0 \/ Len(st.currentLine) > 0
    THEN LET line == Append(st.currentLine,
                            closeField(st.currentField, o.trimFields))
         IN  IF keepLine(line, o.skipEmptyLines)
             THEN Append(st.lines, line) ELSE st.lines
    ELSE st.lines

\* lines 16-149 for a string content: the returned { data, headers, errors }
parseCSV(content, o) ==
    LET t == IF Len(content) > 0 /\ content[1] = BOMCHAR
             THEN Tail(content) ELSE content
        ls == committedLines(scanFrom(t, 0, freshScan, o), o)
    IN  IF Len(ls) = 0
        THEN [data |-> <<>>, headers |-> <<>>,
              errors |-> <<"Empty CSV content">>]
        ELSE LET hdrs == extractHeaders(ls, o.hasHeaders)
                 rest == dataLines(ls, o.hasHeaders)
             IN  [data |-> [k \in 1..Len(rest) |->
                              makeRow(hdrs, adjustLine(rest[k], Len(hdrs)))],
                  headers |-> hdrs,
                  errors |-> lineErrors(rest, Len(hdrs), 1)]

\* the options of the call in progress
callOptions ==
    [hasHeaders |-> hasHeaders, delimiter |-> delimiter,
     trimFields |-> trimFields, skipEmptyLines |-> skipEmptyLines]

\* the step machine and the function give the same lines and the same result
ParseAgrees ==
    /\ pc = "post" =>
          lines = committedLines(scanFrom(csvText, 0, freshScan, callOptions),
                                 callOptions)
    /\ (pc = "done" /\ ~(Len(csvText) > 0 /\ csvText[1] = BOMCHAR)) =>
          [data |-> data, headers |-> headers, errors |-> errors]
              = parseCSV(csvText, callOptions)

\* lines 273-313: the scan from position k (counted from 0) on; the result
\* is <<isUtf8, hasHighAscii>>
RECURSIVE scanBytes(_, _, _)
scanBytes(b, k, high) ==
    IF ~(k < Len(b)) THEN <<TRUE, high>>
    ELSE IF ~(byteAt(b, k) > 127) THEN scanBytes(b, k + 1, high)
    ELSE LET n == continuations(byteAt(b, k))
         IN  IF n = -1 \/ badSequence(b, k, n) THEN <<FALSE, TRUE>>
             ELSE scanBytes(b, k + n + 1, TRUE)

\* lines 259-322
detectEncoding(b) ==
    IF detectBOM(b) # "null" THEN detectBOM(b)
    ELSE LET r == scanBytes(b, 0, FALSE)
         IN  IF r[1] /\ r[2] THEN "UTF-8" ELSE "windows-1252"

\* the step machine and the function give the same encoding
DetectAgrees == pc = "done" => encoding = detectEncoding(buffer)

(***************************************************************************)
(* The VueCsvProcessor component, src/unnamed/part_003: the holder of the  *)
(* file, the encoding, the parse result and the mapping.                   *)
(***************************************************************************)
\* calls made on the component in one behaviour
MaxOps == 3

\* line 71: the defaultEncoding prop
DefaultEncoding == "UTF-8"

\* the character of a code point; a code point without a letter of its own
\* in the model is named by its number
charOfCode(n) ==
    CASE n = 10 -> LF
      [] n = 13 -> CR
      [] n = 32 -> SPACE
      [] n = 34 -> QUOTE
      [] n = 44 -> COMMA
      [] n = 49 -> "1"
      [] n = 50 -> "2"
      [] n = 59 -> SEMI
      [] n = 65 -> "A"
      [] n = 97 -> "a"
      [] n = 98 -> "b"
      [] n = 65279 -> BOMCHAR
      [] OTHER -> "U+" \o ToString(n)

\* String.prototype.toLowerCase on the characters of the model: the capital
\* letters A, B, C, S, V and U+00C3 (195) have a small letter
lowerChar(c) ==
    CASE c = "A" -> "a"
      [] c = "B" -> "b"
      [] c = "C" -> "c"
      [] c = "S" -> "s"
      [] c = "V" -> "v"
      [] c = "U+195" -> "U+227"
      [] OTHER -> c
toLowerCase(t) == [k \in 1..Len(t) |-> lowerChar(t[k])]

\* String.prototype.includes
includes(t, sub) ==
    \E k \in 0..(Len(t) - Len(sub)) : SubSeq(t, k + 1, k + Len(sub)) = sub

\* csv-parser.js line 333, new TextDecoder(label): the runtime has no decoder
\* for UTF-32, and the constructor raises a RangeError
UnsupportedLabels == {"UTF-32LE", "UTF-32BE"}
decoderRejects(label) == label \in UnsupportedLabels

\* TextDecoder('windows-1252').decode: one character per byte; the bytes
\* 0x80..0x9F, which decode to other code points, are in no file of the model
decodeSingleByte(b) == [k \in 1..Len(b) |-> charOfCode(b[k])]

\* TextDecoder('UTF-8').decode after the byte order mark: a well formed 1-,
\* 2- or 3-byte sequence is one character, any other byte is U+FFFD (65533)
RECURSIVE decodeUtf8From(_, _)
decodeUtf8From(b, k) ==
    IF k > Len(b) THEN <<>>
    ELSE LET b1 == b[k]
             cont(j) == k + j <= Len(b) /\ isContinuation(b[k + j])
         IN  IF b1 <= 127
             THEN <<charOfCode(b1)>> \o decodeUtf8From(b, k + 1)
             ELSE IF b1 \in 194..223 /\ cont(1)
             THEN <<charOfCode((b1 - 192) * 64 + (b[k + 1] - 128))>>
                      \o decodeUtf8From(b, k + 2)
             ELSE IF b1 \in 224..239 /\ cont(1) /\ cont(2)
             THEN <<charOfCode((b1 - 224) * 4096 + (b[k + 1] - 128) * 64
                                  + (b[k + 2] - 128))>>
                      \o decodeUtf8From(b, k + 3)
             ELSE <<charOfCode(65533)>> \o decodeUtf8From(b, k + 1)

\* TextDecoder('UTF-8').decode: a leading EF BB BF is dropped
decodeUtf8(b) ==
    IF Len(b) >= 3 /\ SubSeq(b, 1, 3) = <<\hEF, \hBB, \hBF>>
    THEN decodeUtf8From(b, 4) ELSE decodeUtf8From(b, 1)

\* what new TextDecoder(label) raises
rangeError(label) ==
    "Failed to construct 'TextDecoder': The encoding label provided ('"
        \o label \o "') is invalid."

\* new TextDecoder(label).decode(b) for the labels UTF-8 and windows-1252
decode(b, label) ==
    CASE label = "UTF-8" -> decodeUtf8(b)
      [] label = "windows-1252" -> decodeSingleByte(b)

\* csv-parser.js lines 330-334, readWithEncoding of an ArrayBuffer: the text,
\* or the RangeError of the TextDecoder constructor
readWithEncoding(b, label) ==
    IF decoderRejects(label)
    THEN [ok |-> FALSE, text |-> <<>>, message |-> rangeError(label)]
    ELSE [ok |-> TRUE, text |-> decode(b, label), message |-> ""]

\* the files a user picks, by their bytes: `a,b\n1` in ASCII, `é,b\n1,2` in
\* UTF-8, `a` after the UTF-32BE byte order mark, and a file of no bytes
Files == {"ascii", "utf8", "utf32be", "empty"}
bytesOf(f) ==
    CASE f = "ascii" -> <<97, 44, 98, 10, 49>>
      [] f = "empty" -> <<>>
      [] f = "utf8" -> <<195, 169, 44, 98, 10, 49, 44, 50>>
      [] f = "utf32be" -> <<0, 0, 254, 255, 97>>

\* the encodings a user asks for
EncodingChoices == {"UTF-8", "windows-1252", "UTF-32BE"}

\* lines 34-37: the fields prop, { a: { required: true, label: 'A' },
\* b: { required: false }, c: { required: false, label: 'ab' } }; a label
\* that is absent is the empty text
Fields ==
    (<<"a">> :> [required |-> TRUE, label |-> <<"A">>])
    @@ (<<"b">> :> [required |-> FALSE, label |-> <<>>])
    @@ (<<"c">> :> [required |-> FALSE, label |-> <<"a", "b">>])
FieldKeys == DOMAIN Fields

\* line 253: props.fields[fieldKey].label || fieldKey
fieldLabelOf(fieldKey) ==
    IF Len(Fields[fieldKey].label) > 0 THEN Fields[fieldKey].label
    ELSE fieldKey

\* Array.prototype.findIndex, from the positions (counted from 1) of the
\* elements that pass the test: the first of them counted from 0, -1 for none
findIndex(passing) ==
    IF passing = {} THEN -1
    ELSE (CHOOSE k \in passing : \A j \in passing : k <= j) - 1

\* lines 255-266 with the containment pass made first
matchIndexOf_PartialFirst(hdrs, fieldKey) ==
    LET label == toLowerCase(fieldLabelOf(fieldKey))
        exact(h) == toLowerCase(h) = label
        partial(h) == includes(toLowerCase(h), label)
                        \/ includes(label, toLowerCase(h))
        found == findIndex({k \in 1..Len(hdrs) : partial(hdrs[k])})
    IN  IF found = -1
        THEN findIndex({k \in 1..Len(hdrs) : exact(hdrs[k])})
        ELSE found

\* lines 255-266: the header index matched to a field, -1 for none
matchIndexOf(hdrs, fieldKey) ==
    LET label == toLowerCase(fieldLabelOf(fieldKey))
        exact(h) == toLowerCase(h) = label
        partial(h) == includes(toLowerCase(h), label)
                        \/ includes(label, toLowerCase(h))
        found == findIndex({k \in 1..Len(hdrs) : exact(hdrs[k])})
    IN  IF found = -1
        THEN findIndex({k \in 1..Len(hdrs) : partial(hdrs[k])})
        ELSE found

\* lines 240-273 with a field skipped when it was mapped before the clearing
autoMapColumns_SkipMapped(hdrs, m) ==
    IF Len(hdrs) = 0 THEN m
    ELSE [f \in {g \in FieldKeys : g \notin DOMAIN m
                                    /\ matchIndexOf(hdrs, g) # -1} |->
             hdrs[matchIndexOf(hdrs, f) + 1]]

\* lines 240-273: the mapping after autoMapColumns, from the mapping m
autoMapColumns(hdrs, m) ==
    IF Len(hdrs) = 0 THEN m
    ELSE [f \in {g \in FieldKeys : matchIndexOf(hdrs, g) # -1} |->
             hdrs[matchIndexOf(hdrs, f) + 1]]

\* lines 93-111: the processedData computed value
processedData ==
    IF Len(parsedData) = 0 THEN <<>>
    ELSE [r \in 1..Len(parsedData) |->
            [f \in DOMAIN mapping |->
                IF Len(mapping[f]) > 0 /\ mapping[f] \in DOMAIN parsedData[r]
                THEN parsedData[r][mapping[f]] ELSE <<>>]]

\* line 48: props.text.errors.encodingError
EncodingError == "Error processing file with selected encoding"

\* the refs and the history that processFile reads and writes
held ==
    [file |-> file, fileBuffer |-> fileBuffer, rawContent |-> rawContent,
     hasHeaders |-> hasHeaders, parsedData |-> parsedData,
     parsedHeaders |-> parsedHeaders, errors |-> errors,
     encoding |-> encoding, mapping |-> mapping, lastParse |-> lastParse,
     stale |-> stale, toggled |-> toggled, announced |-> announced]

\* processFile with the parse results emptied when decoding raises
processFile_ResetOnError(h) ==
    IF h.file = NoFile \/ h.fileBuffer.isNull THEN h
    ELSE
    LET rd == readWithEncoding(h.fileBuffer.bytes, h.encoding)
    IN  IF ~rd.ok
        THEN [h EXCEPT !.errors = Append(@, EncodingError \o ": " \o rd.message),
                       !.parsedData = <<>>, !.parsedHeaders = <<>>]
        ELSE
        LET res == parseCSV(rd.text,
                       [hasHeaders |-> h.hasHeaders,
                        delimiter |-> detectDelimiter(rd.text),
                        trimFields |-> TRUE, skipEmptyLines |-> TRUE])
        IN  [h EXCEPT
               !.rawContent = rd.text,
               !.parsedData = res.data,
               !.parsedHeaders = res.headers,
               !.errors = IF Len(res.errors) > 0 THEN @ \o res.errors ELSE @,
               !.mapping = IF autoMatch THEN autoMapColumns(res.headers, @)
                           ELSE @,
               !.lastParse = [n |-> @.n + 1, headers |-> res.headers,
                              data |-> res.data, errors |-> res.errors],
               !.stale = IF autoMatch /\ Len(res.headers) > 0 THEN {} ELSE @]

\* lines 174-210: processFile on the refs h, up to its return; the await of
\* line 181 is on a promise already settled, and its continuation runs
\* before any other handler
processFile(h) ==
    IF h.file = NoFile \/ h.fileBuffer.isNull THEN h
    ELSE
    LET rd == readWithEncoding(h.fileBuffer.bytes, h.encoding)
    IN  IF ~rd.ok
        THEN [h EXCEPT !.errors = Append(@, EncodingError \o ": " \o rd.message)]
        ELSE
        LET res == parseCSV(rd.text,
                       [hasHeaders |-> h.hasHeaders,
                        delimiter |-> detectDelimiter(rd.text),
                        trimFields |-> TRUE, skipEmptyLines |-> TRUE])
        IN  [h EXCEPT
               !.rawContent = rd.text,
               !.parsedData = res.data,
               !.parsedHeaders = res.headers,
               !.errors = IF Len(res.errors) > 0 THEN @ \o res.errors ELSE @,
               !.mapping = IF autoMatch THEN autoMapColumns(res.headers, @)
                           ELSE @,
               !.lastParse = [n |-> @.n + 1, headers |-> res.headers,
                              data |-> res.data, errors |-> res.errors],
               !.stale = IF autoMatch /\ Len(res.headers) > 0 THEN {} ELSE @]

\* the refs and the history become h
hold(h) ==
    /\ file' = h.file
    /\ fileBuffer' = h.fileBuffer
    /\ rawContent' = h.rawContent
    /\ hasHeaders' = h.hasHeaders
    /\ parsedData' = h.parsedData
    /\ parsedHeaders' = h.parsedHeaders
    /\ errors' = h.errors
    /\ encoding' = h.encoding
    /\ mapping' = h.mapping
    /\ lastParse' = h.lastParse
    /\ stale' = h.stale
    /\ toggled' = h.toggled
    /\ announced' = h.announced

\* what no handler of the component writes
unused ==
    <<csvText, delimiter, trimFields, skipEmptyLines, pc, tokenizer,
      headers, data, buffer, isUtf8, hasHighAscii, autoMatch,
      autoMatchIgnoreCase>>

InitOrch ==
    /\ freshRefs
    /\ validation = TRUE
    /\ hasHeaders = TRUE
    /\ errors = <<>>
    /\ encoding = DefaultEncoding
    /\ autoMatch \in BOOLEAN
    /\ pc = "idle"
    /\ csvText = <<>>
    /\ delimiter = ""
    /\ trimFields = TRUE
    /\ skipEmptyLines = TRUE
    /\ i = 0
    /\ lines = <<>>
    /\ currentLine = <<>>
    /\ currentField = <<>>
    /\ inQuotes = FALSE
    /\ headers = <<>>
    /\ data = <<>>
    /\ buffer = <<>>
    /\ isUtf8 = TRUE
    /\ hasHighAscii = FALSE

\* lines 129-139: setFile(null), on the refs
clearFile ==
    hold([held EXCEPT !.file = NoFile, !.errors = <<>>,
                      !.parsedData = <<>>, !.parsedHeaders = <<>>,
                      !.fileBuffer = NoBuffer, !.rawContent = <<>>,
                      !.toggled = NoToggle])

\* lines 129-143: setFile(newFile) up to the await of the read, on the refs
beginSetFile(newFile) ==
    /\ hold([held EXCEPT !.file = newFile, !.errors = <<>>,
                         !.stale = {f \in DOMAIN mapping : Len(mapping[f]) > 0},
                         !.toggled = NoToggle])
    /\ pending' = pending \cup {[id |-> ops + 1, file |-> newFile]}

\* lines 143-153: setFile after the read of call r, on the refs; line 152
\* emits file-loaded with the file held
endSetFile(r) ==
    /\ r \in pending
    /\ pending' = pending \ {r}
    /\ LET bytes == bytesOf(r.file)
       IN  hold(processFile(
                 [held EXCEPT
                    !.toggled = NoToggle,
                    !.announced = file,
                    !.fileBuffer = [isNull |-> FALSE, bytes |-> bytes],
                    !.encoding = IF @ = DefaultEncoding
                                 THEN detectEncoding(bytes) ELSE @]))

\* lines 154-156, 166: setFile after the read of call r failed, on the refs
failSetFile(r) ==
    /\ r \in pending
    /\ pending' = pending \ {r}
    /\ hold([held EXCEPT
               !.toggled = NoToggle,
               !.errors = Append(@, "Error loading file: Error reading file")])

\* lines 129-139: setFile(null)
SetFileNull ==
    /\ ops < MaxOps
    /\ ops' = ops + 1
    /\ clearFile
    /\ UNCHANGED <<unused, input, pending, userEncoding>>

\* lines 129-143: setFile(newFile) up to the await of the read
SetFile(newFile) ==
    /\ ops < MaxOps
    /\ ops' = ops + 1
    /\ beginSetFile(newFile)
    /\ UNCHANGED <<unused, input, userEncoding>>

\* lines 143-153: the read of call r is done
ReadDone(r) ==
    /\ endSetFile(r)
    /\ UNCHANGED <<unused, input, ops, userEncoding>>

\* lines 154-156, 166: the read of call r fails
ReadFailed(r) ==
    /\ failSetFile(r)
    /\ UNCHANGED <<unused, input, ops, userEncoding>>

\* setFile of the file held has run to its end (file-loaded was emitted for
\* it), and no read is in flight
fileLoaded ==
    /\ file # NoFile
    /\ announced = file
    /\ pending = {}
    /\ ~fileBuffer.isNull

\* lines 215-223 with the re-parse made before hasHeaders is flipped
ToggleHeaders_ParseBeforeFlip ==
    /\ ops < MaxOps
    /\ ops' = ops + 1
    /\ LET t == IF toggled.n = 1 THEN [toggled EXCEPT !.n = 2]
                ELSE [n |-> 1,
                      loaded |-> fileLoaded,
                      hasHeaders |-> hasHeaders,
                      parsedHeaders |-> parsedHeaders,
                      parsedData |-> parsedData]
           h == IF file # NoFile THEN processFile(held) ELSE held
       IN  hold([h EXCEPT !.hasHeaders = ~@, !.toggled = t])
    /\ UNCHANGED <<unused, input, pending, userEncoding>>

\* lines 215-223; the history keeps what was held before the first of two
\* toggles made in a row
ToggleHeaders ==
    /\ ops < MaxOps
    /\ ops' = ops + 1
    /\ LET h == [held EXCEPT
                    !.hasHeaders = ~@,
                    !.toggled = IF @.n = 1 THEN [@ EXCEPT !.n = 2]
                                ELSE [n |-> 1,
                                      loaded |-> fileLoaded,
                                      hasHeaders |-> hasHeaders,
                                      parsedHeaders |-> parsedHeaders,
                                      parsedData |-> parsedData]]
       IN  hold(IF file # NoFile THEN processFile(h) ELSE h)
    /\ UNCHANGED <<unused, input, pending, userEncoding>>

\* lines 228-235
ChangeEncoding(newEncoding) ==
    /\ ops < MaxOps
    /\ ops' = ops + 1
    /\ userEncoding' = newEncoding
    /\ LET h == [held EXCEPT !.encoding = newEncoding, !.toggled = NoToggle]
       IN  hold(IF file # NoFile /\ ~fileBuffer.isNull
                THEN processFile(h) ELSE h)
    /\ UNCHANGED <<unused, input, pending>>

\* lines 278-280
MapField(field, column) ==
    /\ ops < MaxOps
    /\ ops' = ops + 1
    /\ hold([held EXCEPT
               !.mapping = [f \in DOMAIN mapping \cup {field} |->
                               IF f = field THEN column ELSE mapping[f]],
               !.stale = @ \ {field},
               !.toggled = NoToggle])
    /\ UNCHANGED <<unused, input, pending, userEncoding>>

\* the columns offered for a field: the headers held, and none
columnChoices == {parsedHeaders[k] : k \in 1..Len(parsedHeaders)} \cup {<<>>}

NextOrch ==
    \/ SetFileNull
    \/ \E f \in Files : SetFile(f)
    \/ \E r \in pending : ReadDone(r)
    \/ \E r \in pending : ReadFailed(r)
    \/ ToggleHeaders
    \/ \E e \in EncodingChoices : ChangeEncoding(e)
    \/ \E f \in FieldKeys, c \in columnChoices : MapField(f, c)

SpecOrch == InitOrch /\ [][NextOrch]_vars

(***************************************************************************)
(* The VueCsvInput component, src/unnamed/part_004, mounted in a           *)
(* VueCsvProcessor: files are selected, dropped and removed through it.    *)
(***************************************************************************)
\* part_004 lines 81-89: the fileMimeTypes prop
fileMimeTypes ==
    {"text/csv", "text/x-csv", "application/vnd.ms-excel", "text/plain"}

\* part_004 lines 94-97: the maxSize prop, in bytes; 5 in the model, the
\* size of the file "ascii"
maxSize == 5

\* the names and MIME types of the files selected
FileNames == {<<"a", ".", "C", "S", "V">>, <<"a", ".", "b">>, <<"c", "s", "v">>}
FileTypes == {"text/csv", "application/json"}

\* a File of event.target.files: its bytes by the name of Files, its MIME
\* type and its name
Picks == [file : Files, type : FileTypes, name : FileNames]

\* File.size
sizeOf(selected) == Len(bytesOf(selected.file))

\* part_004 line 166: file.name.split('.').pop().toLowerCase()
fileExtensionOf(name) ==
    LET dots == {k \in 1..Len(name) : name[k] = "."}
        last == CHOOSE k \in dots : \A j \in dots : j <= k
    IN  toLowerCase(IF dots = {} THEN name
                    ELSE SubSeq(name, last + 1, Len(name)))

\* part_004 lines 185-193, formatFileSize, below 1024 bytes
formatFileSize(bytes) ==
    IF bytes = 0 THEN "0 Bytes" ELSE ToString(bytes) \o " Bytes"

\* part_004 lines 162-182 with the size test left out
validateFile_TypeOnly(selected) ==
    IF /\ selected.type \notin fileMimeTypes
       /\ fileExtensionOf(selected.name) # <<"c", "s", "v">>
    THEN <<"Invalid file type">> ELSE <<>>

\* part_004 lines 162-182: the errors of validateFile
validateFile(selected) ==
    (IF /\ selected.type \notin fileMimeTypes
        /\ fileExtensionOf(selected.name) # <<"c", "s", "v">>
     THEN <<"Invalid file type">> ELSE <<>>)
    \o (IF sizeOf(selected) > maxSize
        THEN <<"File is too large. Maximum size is "
                 \o formatFileSize(maxSize) \o ".">>
        ELSE <<>>)

\* part_004 lines 230-234: the watcher of csvProcessor.errors.value runs when
\* the ref is assigned, which processFile does at part_003 line 200 and
\* setFile at line 131 (with an empty list, which the watcher ignores)
watchErrors ==
    fileErrors' = IF lastParse'.n # lastParse.n /\ Len(lastParse'.errors) > 0
                  THEN errors' ELSE fileErrors

InitInput ==
    /\ freshRefs
    /\ validation \in BOOLEAN
    /\ hasHeaders = TRUE
    /\ errors = <<>>
    /\ encoding = DefaultEncoding
    /\ autoMatch \in BOOLEAN
    /\ pc = "idle"
    /\ csvText = <<>>
    /\ delimiter = ""
    /\ trimFields = TRUE
    /\ skipEmptyLines = TRUE
    /\ i = 0
    /\ lines = <<>>
    /\ currentLine = <<>>
    /\ currentField = <<>>
    /\ inQuotes = FALSE
    /\ headers = <<>>
    /\ data = <<>>
    /\ buffer = <<>>
    /\ isUtf8 = TRUE
    /\ hasHighAscii = FALSE

\* part_004 lines 123-143, handleChange up to the await of setFile; onDrop
\* (lines 204-219) calls it with the dropped file
HandleChange(selected) ==
    /\ ops < MaxOps
    /\ ops' = ops + 1
    /\ IF validation /\ Len(validateFile(selected)) > 0
       THEN /\ fileErrors' = validateFile(selected)
            /\ emitted' = [event |-> "error", errors |-> validateFile(selected),
                           file |-> NoFile]
            /\ UNCHANGED <<refs, pending, hasHeaders, errors, encoding,
                           lastParse, stale, toggled, announced>>
       ELSE /\ beginSetFile(selected.file)
            /\ fileErrors' = IF validation THEN <<>> ELSE fileErrors
            /\ UNCHANGED emitted
    /\ UNCHANGED <<unused, validation, userEncoding>>

\* part_003 lines 143-153 and part_004 lines 142-143: the read of call r is
\* done, setFile returns and handleChange emits 'change'
InputReadDone(r) ==
    /\ endSetFile(r)
    /\ watchErrors
    /\ emitted' = [event |-> "change", errors |-> <<>>, file |-> r.file]
    /\ UNCHANGED <<unused, validation, ops, userEncoding>>

\* part_003 lines 154-156 and part_004 lines 142-143: the read of call r
\* fails, setFile records it and returns, handleChange emits 'change'
InputReadFailed(r) ==
    /\ failSetFile(r)
    /\ emitted' = [event |-> "change", errors |-> <<>>, file |-> r.file]
    /\ UNCHANGED <<unused, validation, fileErrors, ops, userEncoding>>

\* part_004 lines 151-159
RemoveFile ==
    /\ ops < MaxOps
    /\ ops' = ops + 1
    /\ clearFile
    /\ fileErrors' = <<>>
    /\ emitted' = [event |-> "change", errors |-> <<>>, file |-> NoFile]
    /\ UNCHANGED <<unused, validation, pending, userEncoding>>

NextInput ==
    \/ \E selected \in Picks : HandleChange(selected)
    \/ \E r \in pending : InputReadDone(r)
    \/ \E r \in pending : InputReadFailed(r)
    \/ RemoveFile

SpecInput == InitInput /\ [][NextInput]_vars

(***************************************************************************)
(* The two auto-matchers, run again and again on the same headers and      *)
(* fields: autoMatchFields of src/components/VueCsvMap.vue and             *)
(* autoMapColumns of the VueCsvProcessor component.                        *)
(***************************************************************************)
\* headers in a file
MaxHeaders == 2

HeaderNames ==
    {<<"a">>, <<"A">>, <<"a", "b">>, <<"A", "b">>, <<"c">>, <<>>}
HeaderRows == UNION {[1..k -> HeaderNames] : k \in 0..MaxHeaders}

\* VueCsvMap.vue lines 159-173: the header index matched to a field
matchIndexOfField(hdrs, fieldName, ignoreCase) ==
    LET fieldLabel == fieldLabelOf(fieldName)
        insensitive(h) == \/ toLowerCase(h) = toLowerCase(fieldLabel)
                          \/ toLowerCase(h) = toLowerCase(fieldName)
        sensitive(h) == h = fieldLabel \/ h = fieldName
    IN  IF ignoreCase
        THEN findIndex({k \in 1..Len(hdrs) : insensitive(hdrs[k])})
        ELSE findIndex({k \in 1..Len(hdrs) : sensitive(hdrs[k])})

\* VueCsvMap.vue line 113
hasData == Len(parsedData) > 0 /\ Len(parsedHeaders) > 0

\* VueCsvMap.vue lines 147-176: the mapping after autoMatchFields, from the
\* mapping m; updateMapping (lines 128-132) is mapField, m[field] = column
autoMatchFields(hdrs, m) ==
    IF ~autoMatch \/ ~hasData THEN m
    ELSE LET at(f) == matchIndexOfField(hdrs, f, autoMatchIgnoreCase)
             matched == {f \in FieldKeys :
                            /\ ~(f \in DOMAIN m /\ Len(m[f]) > 0)
                            /\ at(f) # -1}
         IN  [f \in DOMAIN m \cup matched |->
                 IF f \in matched THEN hdrs[at(f) + 1] ELSE m[f]]

\* the mappings a user can have made over the headers hdrs
mappingsOver(hdrs) ==
    UNION {[ks -> {hdrs[k] : k \in 1..Len(hdrs)} \cup {<<>>}] :
               ks \in SUBSET FieldKeys}

\* one data row of empty values under the headers hdrs
blankRow(hdrs) == [h \in {hdrs[k] : k \in 1..Len(hdrs)} |-> <<>>]

InitMatch ==
    /\ parsedHeaders \in HeaderRows
    /\ parsedData \in {<<>>, <<blankRow(parsedHeaders)>>}
    /\ mapping \in mappingsOver(parsedHeaders)
    /\ autoMatch \in BOOLEAN
    /\ autoMatchIgnoreCase \in BOOLEAN
    /\ pc \in {"autoMatchFields", "autoMapColumns"}
    /\ validation = TRUE
    /\ fileErrors = <<>>
    /\ emitted = NoEvent
    /\ ops = 0
    /\ file = "ascii"
    /\ fileBuffer = NoBuffer
    /\ rawContent = <<>>
    /\ pending = {}
    /\ userEncoding = "none"
    /\ lastParse = NoParse
    /\ stale = {}
    /\ toggled = NoToggle
    /\ announced = NoFile
    /\ hasHeaders = TRUE
    /\ errors = <<>>
    /\ encoding = DefaultEncoding
    /\ csvText = <<>>
    /\ delimiter = ""
    /\ trimFields = TRUE
    /\ skipEmptyLines = TRUE
    /\ i = 0
    /\ lines = <<>>
    /\ currentLine = <<>>
    /\ currentField = <<>>
    /\ inQuotes = FALSE
    /\ headers = <<>>
    /\ data = <<>>
    /\ buffer = <<>>
    /\ isUtf8 = TRUE
    /\ hasHighAscii = FALSE

\* VueCsvMap.vue lines 179-189: autoMatchFields is called
RunAutoMatchFields ==
    /\ pc = "autoMatchFields"
    /\ ops < MaxOps
    /\ ops' = ops + 1
    /\ mapping' = autoMatchFields(parsedHeaders, mapping)
    /\ UNCHANGED <<unused, input, file, fileBuffer, rawContent, parsedData,
                   parsedHeaders, pending, userEncoding, lastParse, stale,
                   toggled, announced, hasHeaders, errors, encoding>>

\* part_003 lines 203-205: autoMapColumns is called
RunAutoMapColumns ==
    /\ pc = "autoMapColumns"
    /\ autoMatch
    /\ ops < MaxOps
    /\ ops' = ops + 1
    /\ mapping' = autoMapColumns(parsedHeaders, mapping)
    /\ UNCHANGED <<unused, input, file, fileBuffer, rawContent, parsedData,
                   parsedHeaders, pending, userEncoding, lastParse, stale,
                   toggled, announced, hasHeaders, errors, encoding>>

NextMatch == RunAutoMatchFields \/ RunAutoMapColumns

SpecMatch == InitMatch /\ [][NextMatch]_vars

(***************************************************************************)
(* The two places of src/utils/csv-parser.js that decode bytes, called     *)
(* with a label: parseCSV of an ArrayBuffer and readWithEncoding of an     *)
(* ArrayBuffer or of a File.  file is NoFile when the content is an        *)
(* ArrayBuffer, held in fileBuffer.  pc is the call to make, then          *)
(* "reading" while the FileReader reads, then how the call ended:          *)
(* "returned" or "raised" for parseCSV; "resolved", "rejected" or, when    *)
(* the promise is left pending for ever, "unsettled" for readWithEncoding. *)
(***************************************************************************)
DecodeLabels == EncodingChoices \cup UnsupportedLabels

\* what the decode calls leave alone
undecoded ==
    <<csvText, delimiter, trimFields, skipEmptyLines, tokenizer, buffer,
      isUtf8, hasHighAscii, autoMatch, autoMatchIgnoreCase, parsedData,
      parsedHeaders, mapping, pending, history, hasHeaders, encoding, file,
      input>>

InitDecode ==
    /\ pc \in {"parseCSV", "readWithEncoding"}
    /\ encoding \in DecodeLabels
    /\ \E f \in Files :
          \/ /\ file = NoFile
             /\ fileBuffer = [isNull |-> FALSE, bytes |-> bytesOf(f)]
          \/ /\ pc = "readWithEncoding"
             /\ file = f
             /\ fileBuffer = NoBuffer
    /\ hasHeaders \in (IF pc = "parseCSV" THEN BOOLEAN ELSE {TRUE})
    /\ rawContent = <<>>
    /\ parsedData = <<>>
    /\ parsedHeaders = <<>>
    /\ mapping = EmptyMapping
    /\ pending = {}
    /\ ops = 0
    /\ userEncoding = "none"
    /\ lastParse = NoParse
    /\ stale = {}
    /\ toggled = NoToggle
    /\ announced = NoFile
    /\ autoMatch = TRUE
    /\ autoMatchIgnoreCase = TRUE
    /\ validation = TRUE
    /\ fileErrors = <<>>
    /\ emitted = NoEvent
    /\ errors = <<>>
    /\ csvText = <<>>
    /\ delimiter = ""
    /\ trimFields = TRUE
    /\ skipEmptyLines = TRUE
    /\ i = 0
    /\ lines = <<>>
    /\ currentLine = <<>>
    /\ currentField = <<>>
    /\ inQuotes = FALSE
    /\ headers = <<>>
    /\ data = <<>>
    /\ buffer = <<>>
    /\ isUtf8 = TRUE
    /\ hasHighAscii = FALSE

\* lines 16-149, parseCSV(content, { hasHeaders, encoding }) of an
\* ArrayBuffer: the decoding of lines 27-28 is outside any try
ParseBuffer ==
    /\ pc = "parseCSV"
    /\ LET rd == readWithEncoding(fileBuffer.bytes, encoding)
           res == parseCSV(rd.text,
                      [hasHeaders |-> hasHeaders, delimiter |-> "",
                       trimFields |-> TRUE, skipEmptyLines |-> TRUE])
       IN  IF rd.ok
           THEN /\ pc' = "returned"
                /\ headers' = res.headers
                /\ data' = res.data
                /\ errors' = res.errors
           ELSE /\ pc' = "raised"
                /\ errors' = <<rd.message>>
                /\ UNCHANGED <<headers, data>>
    /\ UNCHANGED <<undecoded, fileBuffer, rawContent>>

\* lines 330-334, readWithEncoding of an ArrayBuffer
ReadBuffer ==
    /\ pc = "readWithEncoding"
    /\ file = NoFile
    /\ LET rd == readWithEncoding(fileBuffer.bytes, encoding)
       IN  IF rd.ok
           THEN /\ pc' = "resolved"
                /\ rawContent' = rd.text
                /\ UNCHANGED errors
           ELSE /\ pc' = "rejected"
                /\ errors' = <<rd.message>>
                /\ UNCHANGED rawContent
    /\ UNCHANGED <<undecoded, fileBuffer, headers, data>>

\* lines 336-351, readWithEncoding of a File: the read is started and the
\* promise is returned
ReadBlob ==
    /\ pc = "readWithEncoding"
    /\ file # NoFile
    /\ pc' = "reading"
    /\ UNCHANGED <<undecoded, fileBuffer, rawContent, result>>

\* lines 339-343, reader.onload: a TextDecoder constructor that raises does so
\* inside the event handler, where neither resolve nor reject is called
OnLoad ==
    /\ pc = "reading"
    /\ fileBuffer' = [isNull |-> FALSE, bytes |-> bytesOf(file)]
    /\ LET rd == readWithEncoding(bytesOf(file), encoding)
       IN  IF rd.ok
           THEN /\ pc' = "resolved"
                /\ rawContent' = rd.text
           ELSE /\ pc' = "unsettled"
                /\ UNCHANGED rawContent
    /\ UNCHANGED <<undecoded, result>>

\* lines 345-347, reader.onerror
OnError ==
    /\ pc = "reading"
    /\ pc' = "rejected"
    /\ errors' = <<"Error reading file: NotReadableError">>
    /\ UNCHANGED <<undecoded, fileBuffer, rawContent, headers, data>>

NextDecode == ParseBuffer \/ ReadBuffer \/ ReadBlob \/ OnLoad \/ OnError

SpecDecode == InitDecode /\ [][NextDecode]_vars

(***************************************************************************)
(* Properties of parseCSV.                                                 *)
(***************************************************************************)
\* the text `Doe, John`, `Line1\nLine2`, `She said "hi"`
DoeJohn == <<"D", "o", "e", COMMA, SPACE, "J", "o", "h", "n">>
Line1Line2 == <<"L", "i", "n", "e", "1", LF, "L", "i", "n", "e", "2">>
SheSaidHi ==
    <<"S", "h", "e", SPACE, "s", "a", "i", "d", SPACE, QUOTE, "h", "i", QUOTE>>
ColumnPrefix == <<"C", "o", "l", "u", "m", "n", SPACE>>

\* C1: in quote mode a delimiter or a line break (\n, \r) is stored in the
\* field and closes neither the field nor the row; the quoted-containment
\* example parsed with a comma and headers on gives one data row of two
\* fields, name = `Doe, John` and note = `Line1\nLine2`.
C1_QuotedContainment ==
    /\ [][(inLoop /\ inQuotes /\ (isDelimiter(char) \/ char \in {LF, CR}))
            => /\ currentField' = Append(currentField, char)
               /\ currentLine' = currentLine
               /\ lines' = lines
               /\ inQuotes']_vars
    /\ [](pc = "done" /\ csvText = ExQuoted /\ hasHeaders
            /\ delimiter \in {"", COMMA}
          => /\ Len(data) = 1
             /\ headers = <<<<"n", "a", "m", "e">>, <<"n", "o", "t", "e">>>>
             /\ data[1][<<"n", "a", "m", "e">>] = DoeJohn
             /\ data[1][<<"n", "o", "t", "e">>] = Line1Line2
             /\ errors = <<>>)

\* a delimiter was just read in quote mode and sits at the end of the field
C1_Witness ==
    /\ pc = "scan" /\ inQuotes /\ i > 0
    /\ isDelimiter(csvText[i])
    /\ Len(currentField) > 0
    /\ currentField[Len(currentField)] = csvText[i]

\* C2: in quote mode two adjacent quotes add one literal quote to the field,
\* are consumed together and leave quote mode on; every other quote only
\* toggles quote mode and is not stored; the field "She said ""hi""" has the
\* value `She said "hi"`.
C2_DoubledQuote ==
    /\ [][(inLoop /\ char = QUOTE)
            => IF inQuotes /\ nextChar = QUOTE
               THEN /\ currentField' = Append(currentField, QUOTE)
                    /\ inQuotes'
                    /\ i' = i + 2
               ELSE /\ currentField' = currentField
                    /\ inQuotes' = ~inQuotes
                    /\ i' = i + 1]_vars
    /\ [](pc = "done" /\ csvText = ExEscaped
          => IF hasHeaders THEN headers = <<SheSaidHi>>
             ELSE /\ Len(data) = 1
                  /\ data[1][ColumnPrefix \o <<"1">>] = SheSaidHi)

\* a doubled quote was just consumed in quote mode
C2_Witness ==
    /\ pc = "scan" /\ inQuotes /\ i >= 3
    /\ csvText[i] = QUOTE /\ csvText[i - 1] = QUOTE
    /\ Len(currentField) > 0
    /\ currentField[Len(currentField)] = QUOTE

\* the quotes of a text come in adjacent pairs
RECURSIVE quotesPaired(_)
quotesPaired(t) ==
    IF t = <<>> THEN TRUE
    ELSE IF Head(t) # QUOTE THEN quotesPaired(Tail(t))
    ELSE Len(t) >= 2 /\ t[2] = QUOTE /\ quotesPaired(Tail(Tail(t)))

\* a text with every doubled quote replaced by one quote
RECURSIVE collapsed(_)
collapsed(t) ==
    IF t = <<>> THEN <<>>
    ELSE IF Head(t) = QUOTE /\ Len(t) >= 2
         THEN <<QUOTE>> \o collapsed(Tail(Tail(t)))
         ELSE <<Head(t)>> \o collapsed(Tail(t))

\* the text is one quoted field: a quote, a body whose quotes are doubled,
\* a quote
isQuotedField(t) ==
    /\ Len(t) >= 2
    /\ t[1] = QUOTE /\ t[Len(t)] = QUOTE
    /\ quotesPaired(SubSeq(t, 2, Len(t) - 1))

quotedBody(t) == collapsed(SubSeq(t, 2, Len(t) - 1))

\* C3: for every ParseOptions value, a text that is one quoted field is
\* tokenized to one line of one field whose value is the text between the
\* quotes with doubled quotes collapsed, line breaks and delimiters at its
\* start and end included.
C3_QuotedVerbatim ==
    (pc = "post" /\ isQuotedField(csvText) /\ Len(lines) > 0)
        => lines = <<<<quotedBody(csvText)>>>>

\* the step of lines 107-148, taken from a non-empty line list
buildStep == pc = "post" /\ Len(lines) > 0 /\ pc' = "done"

\* the lines that are data lines, counted before the header line is removed
firstData == IF hasHeaders THEN 2 ELSE 1

\* C4: the errors of a result are, in line order, one string
\* `Line <k> has <n> fields, expected <m>` for every data line k (counted
\* from 1 after the header line is removed) whose field count n differs from
\* the header count m, and nothing else.
C4_MismatchErrors ==
    [][buildStep =>
        LET m == Len(headers')
            bad == {k \in 1..Len(lines') : Len(lines'[k]) # m}
            nth(j) == CHOOSE k \in bad : Cardinality({x \in bad : x < k}) = j - 1
        IN  /\ lines' = SubSeq(lines, firstData, Len(lines))
            /\ Len(errors') = Cardinality(bad)
            /\ \A j \in 1..Len(errors') :
                 errors'[j] = "Line " \o ToString(nth(j)) \o " has "
                                \o ToString(Len(lines'[nth(j)]))
                                \o " fields, expected " \o ToString(m)]_vars

\* a result with two errors and a data line that has none; the second error
\* is about a line after a matching line
C4_Witness ==
    /\ pc = "done" /\ Len(errors) = 2 /\ Len(lines) = 3
    /\ Len(lines[2]) = Len(headers)
    /\ errors[2] = "Line 3 has 3 fields, expected 2"

\* the header names that are not repeated at a later position
lastOfName(hdrs) ==
    {k \in 1..Len(hdrs) : \A j \in (k + 1)..Len(hdrs) : hdrs[j] # hdrs[k]}

\* C5: no row is dropped for a field-count mismatch: a non-empty line list
\* gives one row per line, minus the header line when hasHeaders; the value
\* of column k of a row is field k of its line, or the empty string when the
\* line has fewer than k fields, and fields beyond the header count are
\* left out; `a,b,c\n1,2` gives the single row {a: 1, b: 2, c: ''}.
C5_RowsKept ==
    /\ [][buildStep =>
            /\ Len(data') = Len(lines) - (IF hasHeaders THEN 1 ELSE 0)
            /\ \A r \in 1..Len(data') :
                 LET line == lines[r + firstData - 1]
                 IN  \A k \in lastOfName(headers') :
                        data'[r][headers'[k]] =
                            IF k <= Len(line) THEN line[k] ELSE <<>>]_vars
    /\ [](pc = "done" /\ csvText = ExMismatch /\ hasHeaders
            /\ delimiter \in {"", COMMA}
          => /\ Len(data) = 1
             /\ DOMAIN data[1] = {<<"a">>, <<"b">>, <<"c">>}
             /\ data[1][<<"a">>] = <<"1">>
             /\ data[1][<<"b">>] = <<"2">>
             /\ data[1][<<"c">>] = <<>>)

\* a result whose rows come from a shorter and from a longer line
C5_Witness ==
    /\ pc = "done" /\ Len(data) = 3 /\ Len(headers) = 2
    /\ Len(lines[1]) = 1 /\ Len(lines[3]) = 3
    /\ data[1][headers[2]] = <<>>

\* C6: every Row of a result has as many entries as headers has elements.
C6_OneEntryPerHeader ==
    pc = "done" => \A r \in 1..Len(data) :
                       Cardinality(DOMAIN data[r]) = Len(headers)

\* a text that commits no line when empty lines are skipped: only
\* delimiters and line breaks, and white space when fields are trimmed
allEmptyLines(t) ==
    \A k \in 1..Len(t) :
        \/ isDelimiter(t[k])
        \/ t[k] = LF
        \/ (t[k] = CR /\ k < Len(t) /\ t[k + 1] = LF)
        \/ (trimFields /\ IsWhitespace(t[k]))

EmptyResult ==
    /\ data = <<>>
    /\ headers = <<>>
    /\ errors = <<"Empty CSV content">>

\* C7: when the tokenizer committed no line the result is data = [],
\* headers = [], errors = ['Empty CSV content'], for both values of
\* hasHeaders; this is the result for the empty text and, with
\* skipEmptyLines, for a text of delimiters and line breaks only.
C7_EmptyContent ==
    /\ [][(pc = "post" /\ Len(lines) = 0) => (pc' = "done" /\ EmptyResult')]_vars
    /\ [](pc = "done" /\ (csvText = <<>> \/ (skipEmptyLines /\ allEmptyLines(csvText)))
          => EmptyResult)

\* the empty result for a non-empty text of empty lines
C7_Witness ==
    /\ pc = "done" /\ EmptyResult
    /\ ~hasHeaders /\ skipEmptyLines
    /\ Len(csvText) = MaxLen /\ allEmptyLines(csvText)
    /\ \E k \in 1..Len(csvText) : isDelimiter(csvText[k])

\* C8: with hasHeaders the first committed line is the header list and the
\* rows are made of the lines after it; without, the headers are
\* `Column 1` .. `Column N`, N the field count of the first committed line,
\* and the first row holds the fields of the first line; `1,2,3\n4,5,6`
\* without headers gives Column 1, Column 2, Column 3 and two rows.
C8_Headers ==
    /\ [][buildStep =>
            IF hasHeaders
            THEN /\ headers' = lines[1]
                 /\ lines' = Tail(lines)
                 /\ Len(data') = Len(lines) - 1
            ELSE /\ Len(headers') = Len(lines[1])
                 /\ \A k \in 1..Len(headers') :
                      headers'[k] = ColumnPrefix \o <<ToString(k)>>
                 /\ lines' = lines
                 /\ Len(data') = Len(lines)
                 /\ \A k \in 1..Len(headers') :
                      data'[1][headers'[k]] = lines[1][k]]_vars
    /\ [](pc = "done" /\ csvText = ExNoHeaders /\ ~hasHeaders
            /\ delimiter \in {"", COMMA}
          => /\ headers = <<ColumnPrefix \o <<"1">>, ColumnPrefix \o <<"2">>,
                            ColumnPrefix \o <<"3">>>>
             /\ Len(data) = 2
             /\ data[1][ColumnPrefix \o <<"1">>] = <<"1">>
             /\ data[2][ColumnPrefix \o <<"3">>] = <<"6">>)

\* synthesized headers with the first line kept as a row
C8_Witness ==
    /\ pc = "done" /\ ~hasHeaders
    /\ Len(headers) = 3 /\ Len(data) = 2
    /\ headers[3] = ColumnPrefix \o <<"3">>
    /\ data[1][headers[1]] = <<"1">>

\* C9: parseCSV does not raise: in every state before the return one branch
\* of the code applies (no step reads lines[0] of an empty line list), and
\* the returned data is a list of rows keyed by the header names, whatever
\* the text and the options.
C9_NeverThrows ==
    /\ pc # "done" => ENABLED Next
    /\ pc = "post" /\ Len(lines) > 0 => Len(lines[1]) > 0
    /\ pc = "done" =>
          \A r \in 1..Len(data) :
              DOMAIN data[r] = {headers[k] : k \in 1..Len(headers)}

\* a result returned for a text that ends inside an open quote and has a
\* stray carriage return
C9_Witness ==
    /\ pc = "done" /\ inQuotes /\ Len(data) > 0
    /\ \E k \in 1..Len(csvText) : csvText[k] = CR

(***************************************************************************)
(* Properties of detectEncoding.                                           *)
(***************************************************************************)
\* C10: every buffer that starts with FF FE 00 00 is detected as UTF-32LE.
C10_Utf32LeFirst ==
    (pc = "done" /\ Len(buffer) >= 4
        /\ SubSeq(buffer, 1, 4) = <<\hFF, \hFE, \h00, \h00>>)
    => encoding = "UTF-32LE"

\* a buffer is well formed from position k (counted from 0) on: every byte
\* above 127 in lead position is a lead byte followed by all of its
\* continuation bytes
RECURSIVE wellFormedFrom(_, _)
wellFormedFrom(b, k) ==
    IF k >= Len(b) THEN TRUE
    ELSE LET byte == b[k + 1]
             n == IF byte \in 192..223 THEN 1
                  ELSE IF byte \in 224..239 THEN 2
                  ELSE IF byte \in 240..247 THEN 3 ELSE 0
         IN  IF byte <= 127 THEN wellFormedFrom(b, k + 1)
             ELSE /\ n > 0
                  /\ k + n < Len(b)
                  /\ \A j \in 1..n : b[k + j + 1] \in 128..191
                  /\ wellFormedFrom(b, k + n + 1)

hasHighByte(b) == \E k \in 1..Len(b) : b[k] > 127

\* C11: for a buffer without a byte order mark the result is UTF-8 exactly
\* when the buffer has a byte above 127 and is well formed, and
\* windows-1252 otherwise; the empty buffer and pure ASCII give
\* windows-1252.
C11_ResultRule ==
    (pc = "done" /\ detectBOM(buffer) = "null") =>
        /\ encoding = IF hasHighByte(buffer) /\ wellFormedFrom(buffer, 0)
                      THEN "UTF-8" ELSE "windows-1252"
        /\ ~hasHighByte(buffer) => encoding = "windows-1252"

\* a 3-byte sequence after nothing else gives UTF-8
C11_Witness ==
    /\ pc = "done" /\ encoding = "UTF-8"
    /\ buffer = <<\hE2, \h80, \hBF>>

\* C12: when the scan stands on a byte above 127 that is no lead byte, or on
\* a lead byte whose 1, 2 or 3 continuation bytes are cut short by the end
\* of the buffer or are not all in 0x80..0xBF, the scan stops with isUtf8
\* false and the result is windows-1252; C3 41 gives windows-1252.
C12_StructuralValidation ==
    /\ [][(inScan /\ buffer[i + 1] > 127 /\
            LET byte == buffer[i + 1]
                n == IF byte \in 192..223 THEN 1
                     ELSE IF byte \in 224..239 THEN 2
                     ELSE IF byte \in 240..247 THEN 3 ELSE 0
            IN  \/ n = 0
                \/ i + n + 1 > Len(buffer)
                \/ \E j \in 1..n : buffer[i + j + 1] \notin 128..191)
           => (~isUtf8' /\ pc' = "result")]_vars
    /\ [](pc = "done" /\ detectBOM(buffer) = "null" /\ ~isUtf8
            => encoding = "windows-1252")
    /\ [](pc = "done" /\ buffer = <<\hC3, \h41>> => encoding = "windows-1252")

\* a 4-byte sequence whose second continuation byte is ASCII was rejected
C12_Witness ==
    /\ pc = "done" /\ ~isUtf8 /\ encoding = "windows-1252"
    /\ buffer = <<\hF0, \h80, \h41, \h80>>

\* the buffer b starts with the bytes p
startsWith(b, p) == Len(b) >= Len(p) /\ SubSeq(b, 1, Len(p)) = p

\* C31: a buffer starting with EF BB BF gives UTF-8, with FF FE (not
\* followed by 00 00) UTF-16LE, with 00 00 FE FF UTF-32BE and with FE FF
\* UTF-16BE, whatever follows; the mark decides in one step, without a
\* scan; a buffer shorter than a mark is not decided by that mark.
C31_BomTable ==
    /\ [](pc = "done" =>
            /\ startsWith(buffer, <<\hEF, \hBB, \hBF>>) => encoding = "UTF-8"
            /\ (startsWith(buffer, <<\hFF, \hFE>>)
                   /\ ~startsWith(buffer, <<\hFF, \hFE, \h00, \h00>>))
                  => encoding = "UTF-16LE"
            /\ startsWith(buffer, <<\h00, \h00, \hFE, \hFF>>)
                  => encoding = "UTF-32BE"
            /\ startsWith(buffer, <<\hFE, \hFF>>) => encoding = "UTF-16BE")
    /\ [][pc = "bom" =>
            /\ (\/ startsWith(buffer, <<\hEF, \hBB, \hBF>>)
                \/ startsWith(buffer, <<\hFF, \hFE>>)
                \/ startsWith(buffer, <<\h00, \h00, \hFE, \hFF>>)
                \/ startsWith(buffer, <<\hFE, \hFF>>))
                  => (pc' = "done" /\ i' = i)
            /\ Len(buffer) < 2 => pc' = "bytes"
            /\ Len(buffer) < 3 =>
                  (pc' = "done" => encoding' \in {"UTF-16LE", "UTF-16BE"})
            /\ Len(buffer) < 4 =>
                  (pc' = "done" => encoding' # "UTF-32BE")]_vars

\* the UTF-32BE mark decided although the byte after it is no valid UTF-8
C31_Witness ==
    /\ pc = "done" /\ encoding = "UTF-32BE" /\ i = 0
    /\ buffer = <<\h00, \h00, \hFE, \hFF, \h80>>

(***************************************************************************)
(* Properties of detectDelimiter.                                          *)
(***************************************************************************)
\* the occurrences of c in the first five lines of the text
inSample(c) == Len(SelectSeq(sampleOf(csvText), LAMBDA x : x = c))

firstLines(t) ==
    LET ls == splitLinesFrom(t, 1, <<>>)
    IN  SubSeq(ls, 1, IF Len(ls) < 5 THEN Len(ls) ELSE 5)

\* the texts that the text t is the start of, and the starts of t
variantsOf(t) ==
    {t \o more : more \in DelimTexts(2)} \cup {SubSeq(t, 1, k) : k \in 0..Len(t)}

\* C32: every text that has the same first five lines as the text given
\* gets the same delimiter, whatever follows those lines.
C32_FirstFiveLines ==
    pc = "done" =>
        \A other \in variantsOf(csvText) :
            firstLines(other) = firstLines(csvText)
                => detectDelimiter(other) = delimiter

\* one comma in the first five lines and two pipes in the sixth: comma, as
\* for the text that ends after the fifth line
C32_Witness ==
    /\ pc = "done" /\ delimiter = COMMA
    /\ csvText = <<"a", COMMA, "b", LF, LF, CR, LF, LF, LF, PIPE, PIPE>>
    /\ firstLines(<<"a", COMMA, "b", LF, LF, CR, LF, LF>>) = firstLines(csvText)

\* C21: with no delimiter given, the result of parseCSV is the result with
\* the delimiter that detectDelimiter returns for the same text.
C21_DelimiterDefault ==
    (pc = "done" /\ delimiter = "") =>
        [data |-> data, headers |-> headers, errors |-> errors]
            = parseCSV(csvText,
                       [callOptions EXCEPT !.delimiter = detectDelimiter(csvText)])

\* the character read is a line break outside quotes
lineBroken ==
    /\ pc = "scan"
    /\ i < Len(csvText)
    /\ ~inQuotes
    /\ (char = LF \/ (char = CR /\ nextChar = LF))

\* C25: a line ended by a line break outside quotes is committed when
\* skipEmptyLines is false or one of its fields, trimmed when trimFields, is
\* not empty, and is omitted otherwise; so with skipEmptyLines every
\* committed line, the header line included, has a non-empty field, and
\* without it every such line break commits exactly one line.
C25_EmptyLineRule ==
    /\ [][lineBroken =>
            LET fields == Append(currentLine,
                                 IF trimFields THEN trim(currentField)
                                 ELSE currentField)
                filled == \E k \in 1..Len(fields) : fields[k] # <<>>
            IN  lines' = IF ~skipEmptyLines \/ filled
                         THEN Append(lines, fields) ELSE lines]_vars
    /\ [](skipEmptyLines =>
            \A k \in 1..Len(lines) :
                \E j \in 1..Len(lines[k]) : lines[k][j] # <<>>)

\* the line `,` of two empty fields was read and omitted
C25_Witness ==
    /\ skipEmptyLines
    /\ pc = "scan"
    /\ i = 2
    /\ Len(csvText) >= 2
    /\ SubSeq(csvText, 1, 2) = <<COMMA, LF>>
    /\ isDelimiter(COMMA)
    /\ lines = <<>>
    /\ currentLine = <<>>

\* the scan of the whole text ends outside quotes
quotesClosed == ~scanFrom(csvText, 0, freshScan, callOptions).inQuotes

\* C26: for a non-empty text that does not end in a line break and does not
\* end inside an open quote, and for every value of the options, parseCSV
\* of the text equals parseCSV of the text followed by a line break.
C26_EndOfInput ==
    (/\ pc = "start"
     /\ Len(csvText) > 0
     /\ csvText[Len(csvText)] # LF
     /\ quotesClosed) =>
        parseCSV(csvText, callOptions) = parseCSV(Append(csvText, LF), callOptions)

\* the text with every \n replaced by \r\n
RECURSIVE crlf(_)
crlf(t) ==
    IF t = <<>> THEN <<>>
    ELSE (IF Head(t) = LF THEN <<CR, LF>> ELSE <<Head(t)>>) \o crlf(Tail(t))

\* the text has neither a quote nor a \r
plainLines == \A k \in 1..Len(csvText) : csvText[k] \notin {QUOTE, CR}

\* the character read, outside quotes, is a \r that no \n follows
loneCR ==
    /\ pc = "scan"
    /\ i < Len(csvText)
    /\ ~inQuotes
    /\ char = CR
    /\ nextChar # LF

\* C27: outside quotes a \n, and a \r with the \n that follows it, end one
\* row and are consumed; a text without quotes and without \r gives the same
\* result when every \n is replaced by \r\n; a \r that no \n follows ends
\* no row and goes into the field.
C27_LineBreaks ==
    /\ []((pc = "start" /\ plainLines) =>
             parseCSV(csvText, callOptions) = parseCSV(crlf(csvText), callOptions))
    /\ [][lineBroken =>
             /\ i' = i + (IF char = CR THEN 2 ELSE 1)
             /\ currentLine' = <<>>
             /\ currentField' = <<>>
             /\ Len(lines') <= Len(lines) + 1
             /\ ~skipEmptyLines => Len(lines') = Len(lines) + 1]_vars
    /\ [][loneCR =>
             /\ currentField' = Append(currentField, CR)
             /\ i' = i + 1
             /\ UNCHANGED <<lines, currentLine>>]_vars

\* a \r that no \n follows was read as the first character of a field
C27_Witness ==
    /\ pc = "scan"
    /\ i = 1
    /\ csvText[1] = CR
    /\ currentField = <<CR>>
    /\ lines = <<>>

\* the text t starts with U+FEFF
marked(t) == Len(t) > 0 /\ t[1] = BOMCHAR

\* C33: a first character U+FEFF is dropped before the tokenizer starts,
\* and only that one character; for a text t that does not start with
\* U+FEFF the result for U+FEFF + t is the result for t, under all options.
C33_BomStripped ==
    /\ [][pc = "start" =>
            /\ csvText' = IF marked(csvText) THEN Tail(csvText) ELSE csvText
            /\ pc' = "scan" /\ i' = 0 /\ lines' = <<>>
            /\ currentLine' = <<>> /\ currentField' = <<>>]_vars
    /\ []((pc = "start" /\ ~marked(csvText)) =>
            parseCSV(<<BOMCHAR>> \o csvText, callOptions)
                = parseCSV(csvText, callOptions))
    /\ []((pc = "done" /\ ~marked(csvText)) =>
            [data |-> data, headers |-> headers, errors |-> errors]
                = parseCSV(<<BOMCHAR>> \o csvText, callOptions))

\* of two U+FEFF the second stayed, as a character of the field
C33_Witness ==
    /\ pc = "done" /\ ~trimFields /\ ~hasHeaders
    /\ csvText = <<BOMCHAR, "a">>
    /\ Len(data) = 1
    /\ data[1] = (<<"C", "o", "l", "u", "m", "n", " ", "1">> :> <<BOMCHAR, "a">>)

\* the line pending at the end of the input, with its last field closed
pendingLine == Append(currentLine, closeField(currentField, trimFields))

\* C37: inside a quote that is never closed every character but a quote
\* goes into the field, delimiters and line breaks included; at the end of
\* the input the field and its line are committed (under the empty-line
\* rule); the errors are only those of the field counts.
C37_UnclosedQuote ==
    /\ [][(inLoop /\ inQuotes /\ char # QUOTE) =>
            /\ currentField' = Append(currentField, char)
            /\ UNCHANGED <<currentLine, lines>>
            /\ inQuotes']_vars
    /\ [][(pc = "scan" /\ ~(i < Len(csvText)) /\ inQuotes
             /\ keepLine(pendingLine, skipEmptyLines)) =>
            lines' = Append(lines, pendingLine)]_vars
    /\ []((pc = "done" /\ inQuotes /\ Len(headers) > 0) =>
            errors = lineErrors(lines, Len(headers), 1))

\* the text s neither begins nor ends with a whitespace character
clean(s) == Len(s) = 0 \/ (~IsWhitespace(s[1]) /\ ~IsWhitespace(s[Len(s)]))

\* the lines ls with every field trimmed
trimmedLines(ls) == [k \in 1..Len(ls) |-> [j \in 1..Len(ls[k]) |-> trim(ls[k][j])]]

\* C39: with trimFields no header and no value of a row begins or ends with
\* a whitespace character, quoted or not; without trimFields every field is
\* committed as it was accumulated, and the lines with trimFields are the
\* lines without it, trimmed (when no line is skipped as empty).
C39_TrimInvariant ==
    /\ []((pc = "done" /\ trimFields) =>
            /\ \A k \in 1..Len(headers) : clean(headers[k])
            /\ \A r \in 1..Len(data) :
                  \A h \in DOMAIN data[r] : clean(data[r][h]))
    /\ [][(pc = "scan" /\ ~trimFields
             /\ (currentLine' # currentLine \/ lines' # lines)) =>
            \/ currentLine' = Append(currentLine, currentField) /\ lines' = lines
            \/ lines' = Append(lines, Append(currentLine, currentField))
            \/ currentLine' = <<>> /\ lines' = lines /\ skipEmptyLines]_vars
    /\ []((pc = "post" /\ trimFields /\ ~skipEmptyLines) =>
            lines = trimmedLines(committedLines(
                        scanFrom(csvText, 0, freshScan,
                                 [callOptions EXCEPT !.trimFields = FALSE]),
                        [callOptions EXCEPT !.trimFields = FALSE])))

\* a quoted field that ends in a line break and a field in spaces were
\* trimmed
C39_Witness ==
    /\ pc = "done" /\ trimFields /\ csvText = ExSpaces
    /\ ~hasHeaders /\ delimiter = COMMA /\ Len(data) = 2

(***************************************************************************)
(* Properties of the VueCsvProcessor component.                            *)
(***************************************************************************)
\* the step is a processFile that parsed
parsed == lastParse'.n # lastParse.n

\* C14: an auto-match run, the one of a re-parse on a header toggle or an
\* encoding change included, leaves every field that was mapped to a
\* non-empty column mapped to that same column.
C14_AutoMatchPreserves ==
    [][(parsed /\ autoMatch) =>
          \A f \in DOMAIN mapping :
              Len(mapping[f]) > 0 =>
                  f \in DOMAIN mapping' /\ mapping'[f] = mapping[f]]_vars

\* the step ends the load of a file: its read is done and it was parsed
loaded == parsed /\ pending' # pending

\* C16: when a new file has been loaded, whatever autoMatch is, no mapping
\* entry made before that setFile call is left.
C16_MappingReset == [][loaded => stale' = {}]_vars

\* C17: after every processFile that parsed, on a load, an encoding change
\* or a header toggle, the data, headers and errors held are exactly those
\* of that parse.
C17_ResultReplaced ==
    [][parsed => /\ parsedData' = lastParse'.data
                 /\ parsedHeaders' = lastParse'.headers
                 /\ errors' = lastParse'.errors]_vars

\* C18: when the read of a loaded file is done, the encoding used is the one
\* the user chose, the default one included, and the sniffer's result for the
\* bytes of that file when the user chose none.
C18_EncodingOnLoad ==
    [][\A r \in pending :
          ReadDone(r) =>
              encoding' = IF userEncoding # "none" THEN userEncoding
                          ELSE detectEncoding(bytesOf(r.file))]_vars

\* C19: the processed data has one row per parsed row, in order, and every
\* field of the field definitions has a value in each: the value of the
\* column it is mapped to when the row has that column, the empty text when
\* the field is unmapped.
C19_ProcessedRows ==
    /\ Len(processedData) = Len(parsedData)
    /\ \A r \in 1..Len(parsedData) :
          \A f \in FieldKeys :
              /\ f \in DOMAIN processedData[r]
              /\ processedData[r][f] =
                     IF /\ f \in DOMAIN mapping
                        /\ Len(mapping[f]) > 0
                        /\ mapping[f] \in DOMAIN parsedData[r]
                     THEN parsedData[r][mapping[f]] ELSE <<>>

\* the file is over the size limit, or has neither an allowed MIME type nor
\* the extension csv
refused(selected) ==
    \/ sizeOf(selected) > maxSize
    \/ /\ selected.type \notin fileMimeTypes
       /\ fileExtensionOf(selected.name) # <<"c", "s", "v">>

\* C22: with validation enabled, a selected or dropped file that is too large
\* or of a wrong type is not passed to setFile: the file, buffer, parsed data,
\* headers and mapping of the orchestrator stay as they are, no read is
\* started, and an 'error' event is emitted.
C22_ValidationGate ==
    [][\A selected \in Picks :
          (validation /\ refused(selected) /\ HandleChange(selected)) =>
              /\ UNCHANGED <<file, fileBuffer, parsedData, parsedHeaders,
                             mapping, pending>>
              /\ emitted'.event = "error"]_vars

\* a file was refused while a loaded file is held
C22_Witness ==
    /\ validation
    /\ emitted.event = "error"
    /\ file # NoFile
    /\ Len(parsedData) > 0

\* no read of the file held has failed
readsDone ==
    \A k \in 1..Len(errors) :
        errors[k] # "Error loading file: Error reading file"

\* C23: when setFile was called for a file and then for another, and the
\* reads are done in either order, the file, byte buffer, raw content,
\* parsed headers and parsed data held are all those of the file selected
\* last.
C23_LastFileWins ==
    (pending = {} /\ file # NoFile /\ readsDone) =>
        /\ ~fileBuffer.isNull
        /\ fileBuffer.bytes = bytesOf(file)
        /\ LET rd == readWithEncoding(bytesOf(file), encoding)
               res == parseCSV(rd.text,
                          [hasHeaders |-> hasHeaders,
                           delimiter |-> detectDelimiter(rd.text),
                           trimFields |-> TRUE, skipEmptyLines |-> TRUE])
           IN  rd.ok => /\ rawContent = rd.text
                        /\ parsedHeaders = res.headers
                        /\ parsedData = res.data

\* C24: when no operation is pending and no file is held, the byte buffer is
\* null, the raw content is empty, and so are the parsed data and headers.
C24_RemovedFile ==
    (pending = {} /\ file = NoFile) =>
        /\ fileBuffer.isNull
        /\ rawContent = <<>>
        /\ parsedData = <<>>
        /\ parsedHeaders = <<>>

\* C34: when the decoder raises in processFile, on a file load or on
\* changeEncoding, one encoding-error string is appended to errors, parsed
\* data, parsed headers and mapping stay as they were, and encoding holds
\* the value asked for (on a load, the one detected for the file).
C34_FailedReprocess ==
    /\ [][\A e \in EncodingChoices :
             (/\ ChangeEncoding(e)
              /\ file # NoFile /\ ~fileBuffer.isNull
              /\ ~readWithEncoding(fileBuffer.bytes, e).ok) =>
                 /\ errors' = Append(errors, EncodingError \o ": " \o rangeError(e))
                 /\ UNCHANGED <<parsedData, parsedHeaders, mapping>>
                 /\ encoding' = e]_vars
    /\ [][\A r \in pending :
             (/\ ReadDone(r)
              /\ file # NoFile
              /\ ~readWithEncoding(bytesOf(r.file), encoding').ok) =>
                 /\ errors' = Append(errors, EncodingError \o ": "
                                                \o rangeError(encoding'))
                 /\ UNCHANGED <<parsedData, parsedHeaders, mapping>>
                 /\ encoding' = IF encoding = DefaultEncoding
                                 THEN detectEncoding(bytesOf(r.file))
                                 ELSE encoding]_vars

\* the file a,b / 1 is loaded and parsed, then UTF-32BE is asked for
C34_Witness ==
    /\ file = "ascii" /\ pending = {} /\ encoding = "UTF-32BE"
    /\ errors = <<EncodingError \o ": " \o rangeError("UTF-32BE")>>
    /\ parsedHeaders = << <<"a">>, <<"b">> >>
    /\ Len(parsedData) = 1

\* C35: once no read is pending, every non-empty value of the mapping is
\* one of the parsed headers held.
C35_MappingInHeaders ==
    pending = {} =>
        \A f \in DOMAIN mapping :
            mapping[f] # <<>> =>
                \E k \in 1..Len(parsedHeaders) : parsedHeaders[k] = mapping[f]

\* C36: after two header toggles in a row on a loaded file, hasHeaders,
\* the parsed headers and the parsed data are what they were before the
\* first; with no file, a toggle flips hasHeaders and changes nothing else.
C36_ToggleRoundTrip ==
    /\ []((toggled.n = 2 /\ toggled.loaded) =>
            /\ hasHeaders = toggled.hasHeaders
            /\ parsedHeaders = toggled.parsedHeaders
            /\ parsedData = toggled.parsedData)
    /\ [][(ToggleHeaders /\ file = NoFile) =>
            /\ hasHeaders' = ~hasHeaders
            /\ UNCHANGED <<refs, errors, encoding, pending>>]_vars

\* the file a,b / 1 was toggled twice and has its header row and its one
\* data row again
C36_Witness ==
    /\ toggled.n = 2 /\ toggled.loaded /\ file = "ascii" /\ hasHeaders
    /\ parsedHeaders = << <<"a">>, <<"b">> >>
    /\ Len(parsedData) = 1

(***************************************************************************)
(* Properties of the auto-matchers.                                        *)
(***************************************************************************)
\* C15: with the same headers and fields, an auto-match run made on the
\* mapping that an earlier run produced leaves the mapping as it is.
C15_Idempotent == [][(ops >= 1 /\ ops' = ops + 1) => mapping' = mapping]_vars

\* two runs were made over headers and data, one field was matched and one
\* was not
C15_Witness ==
    /\ ops = 2
    /\ hasData
    /\ \E f \in DOMAIN mapping : Len(mapping[f]) > 0
    /\ \E f \in FieldKeys : f \notin DOMAIN mapping

(***************************************************************************)
(* Properties of the decoding.                                             *)
(***************************************************************************)
\* the call has ended, or will never end
ended == pc \in {"returned", "raised", "resolved", "rejected", "unsettled"}

\* C20: with a label the decoder does not support, parseCSV of a byte
\* buffer raises and readWithEncoding rejects; neither returns a text.
C20_DecodeFailureRaises ==
    (decoderRejects(encoding) /\ ended) => pc \in {"raised", "rejected"}

\* the step is a run of autoMapColumns over at least one header
mapped == pc = "autoMapColumns" /\ ops' = ops + 1 /\ Len(parsedHeaders) > 0

\* the least number of a non-empty set of numbers
least(S) == CHOOSE k \in S : \A j \in S : k <= j

\* the headers equal to the text of field f, and those that contain it or
\* are contained in it, letter case ignored
equalTo(f) ==
    {k \in 1..Len(parsedHeaders) :
        toLowerCase(parsedHeaders[k]) = toLowerCase(fieldLabelOf(f))}
akinTo(f) ==
    {k \in 1..Len(parsedHeaders) :
        \/ includes(toLowerCase(parsedHeaders[k]), toLowerCase(fieldLabelOf(f)))
        \/ includes(toLowerCase(fieldLabelOf(f)), toLowerCase(parsedHeaders[k]))}

\* C28: autoMapColumns maps a field to the first header that equals its text
\* when there is one; otherwise to the first header that contains its text
\* or is contained in it; a field with neither is left unmapped.
C28_PassOrder ==
    [][mapped =>
          \A f \in FieldKeys :
              IF equalTo(f) # {}
              THEN f \in DOMAIN mapping'
                   /\ mapping'[f] = parsedHeaders[least(equalTo(f))]
              ELSE IF akinTo(f) # {}
              THEN f \in DOMAIN mapping'
                   /\ mapping'[f] = parsedHeaders[least(akinTo(f))]
              ELSE f \notin DOMAIN mapping']_vars

\* field a has the second header, which equals its label; the first header
\* only contains it, and went to field b, which it contains, and to field c,
\* whose label it equals
C28_Witness ==
    /\ pc = "autoMapColumns"
    /\ ops = 1
    /\ parsedHeaders = << <<"a", "b">>, <<"a">> >>
    /\ mapping = (<<"a">> :> <<"a">>) @@ (<<"b">> :> <<"a", "b">>)
                   @@ (<<"c">> :> <<"a", "b">>)

\* a step of either auto-matcher with auto-match enabled, over a file that
\* has headers
matched == autoMatch /\ ops' = ops + 1 /\ Len(parsedHeaders) > 0

\* the field f had no mapping before the step
unmapped(f) == f \notin DOMAIN mapping \/ mapping[f] = <<>>

\* the header h equals the name or the label of field f under the case rule
namesField(h, f) ==
    IF autoMatchIgnoreCase
    THEN \/ toLowerCase(h) = toLowerCase(f)
         \/ toLowerCase(h) = toLowerCase(fieldLabelOf(f))
    ELSE h = f \/ h = fieldLabelOf(f)
naming(f) == {k \in 1..Len(parsedHeaders) : namesField(parsedHeaders[k], f)}

\* C29: after an auto-match over the headers of a loaded file, each field
\* that had no mapping and has a header equal to its name or to its label
\* (under the case rule) is mapped to the first such header.
C29_NameOrLabel ==
    [][matched =>
          \A f \in FieldKeys :
              (unmapped(f) /\ naming(f) # {}) =>
                  /\ f \in DOMAIN mapping'
                  /\ mapping'[f] = parsedHeaders[least(naming(f))]]_vars

\* C30: with ignoreCase false, a field that an auto-match gives a column is
\* given only a header that is exactly its label or its name.
C30_CaseRule ==
    [][(matched /\ ~autoMatchIgnoreCase) =>
          \A f \in DOMAIN mapping' :
              (mapping'[f] # <<>> /\ (unmapped(f) \/ mapping'[f] # mapping[f])) =>
                  \/ mapping'[f] = f
                  \/ mapping'[f] = fieldLabelOf(f)]_vars

\* the non-empty headers that contain the text of field f or are contained
\* in it, letter case ignored
akinNonEmpty(f) == {k \in akinTo(f) : parsedHeaders[k] # <<>>}

\* C38: autoMapColumns leaves a field unmapped when no header equals its
\* text and no non-empty header contains it or is contained in it; an empty
\* column name does not get the fields that match nothing.
C38_EmptyHeaderUnmatched ==
    [][mapped =>
          \A f \in FieldKeys :
              (equalTo(f) = {} /\ akinNonEmpty(f) = {}) =>
                  f \notin DOMAIN mapping']_vars

(***************************************************************************)
(* Termination of the tokenizer loop and of the byte scan                  *)
(***************************************************************************)

\* a turn of the tokenizer loop, lines 45-87: the loop is entered and left
\* at pc = "scan"
tokenizerTurn == pc = "scan" /\ pc' = "scan"

\* a turn of the byte scan, lines 273-313, that does not break out
scanTurn == pc = "bytes" /\ pc' = "bytes"

\* C40: for every finite input the tokenizer loop of parseCSV and the byte
\* scan of detectEncoding terminate.  Every turn of either loop strictly
\* advances the index: the tokenizer by 1, or by 2 over a doubled quote or
\* a CRLF; the scan by 1, or by 2 to 4 over a multi-byte sequence.  The
\* index never moves backwards and never passes the end of the input, and
\* from any point inside a loop the code after the loop is reached.
C40_LoopsTerminate ==
    /\ [][tokenizerTurn =>
            /\ i' \in {i + 1, i + 2}
            /\ i' = i + 2 <=> (EscapedQuote \/ (EndOfLine /\ char = CR))]_vars
    /\ [][scanTurn =>
            /\ i' \in {i + 1, i + 2, i + 3, i + 4}
            /\ i' > i + 1 <=> ScanSequence]_vars
    /\ [][i' >= i]_vars
    /\ [](pc = "scan" => i <= Len(csvText))
    /\ [](pc = "bytes" => i <= Len(buffer))
    /\ (pc = "scan") ~> (pc = "post")
    /\ (pc = "bytes") ~> (pc = "result")
    /\ <>(pc = "done")

\* the tokenizer has left its loop at the end of a text of three quotes,
\* having taken one turn of one character and one turn of two
C40_Witness ==
    /\ pc = "post"
    /\ csvText = <<QUOTE, QUOTE, QUOTE>>
    /\ i = Len(csvText)
    /\ currentLine = <<<<QUOTE>>>>

====
